---- MODULE Spec2Model ----
(***************************************************************************)
(* Model of the SmartTask FAQ question-answering pipeline:                 *)
(*   app/api/routes.py            ask_question, upload_document            *)
(*   app/services/rag_service.py  RAGService (retrieval store, chunker)    *)
(*   app/services/cache_service.py CacheService (answer cache)             *)
(*   app/services/llm_service.py  LLMService.generate_answer               *)
(* Text is modelled as a sequence of one-character strings.  Every call to *)
(* a backend (Redis, ChromaDB, the LLM provider, PostgreSQL) either        *)
(* returns or raises; which one is chosen nondeterministically per call.   *)
(* Coroutines interleave at their await points only.                       *)
(***************************************************************************)
EXTENDS Integers, Sequences, FiniteSets, TLC

\* ------------------------------------------------------------------ bounds
\* number of /ask requests in flight at a time (a slot serves one request
\* after the other)
MaxRequests == 1
\* number of document, stats and health requests in flight at a time
MaxAdmins == 2
\* settings.chunk_size / settings.chunk_overlap (environment-configurable)
ChunkSize == 5
ChunkOverlap == 1
\* iterations of the chunking loop that are followed
MaxChunkIter == 8
\* direct calls of the chunker: longest text, largest chunk_size
MaxTextLen == 6
\* provider objects registered under one name
MaxRegistrations == 2
MaxChunkSize == 5

\* ------------------------------------------------------- program constants
MAX_RECONNECT_ATTEMPTS == 3
RECONNECT_BASE_DELAY == 1
MaxGenAttempts == 3
TopK == 3
SourceExcerptLen == 200

None == "None"
\* an absent dict or object
Nil == [nil |-> TRUE]

\* ------------------------------------------------------------------- text
Whitespace == {" ", "\n"}

\* str.strip(): drop leading and trailing whitespace
RECURSIVE LStrip(_)
LStrip(s) ==
    IF s = <<>> THEN <<>>
    ELSE IF Head(s) \in Whitespace THEN LStrip(Tail(s)) ELSE s

RECURSIVE RStrip(_)
RStrip(s) ==
    IF s = <<>> THEN <<>>
    ELSE IF s[Len(s)] \in Whitespace THEN RStrip(SubSeq(s, 1, Len(s) - 1)) ELSE s

Strip(s) == RStrip(LStrip(s))

LowerChar(c) ==
    CASE c = "A" -> "a"
      [] c = "B" -> "b"
      [] OTHER -> c

\* str.lower()
Lower(s) == [i \in 1..Len(s) |-> LowerChar(s[i])]

\* s[a:b] with Python's 0-based, end-exclusive, clamping slice semantics
\* (a negative bound counts from the end)
PySlice(s, a, b) ==
    LET n  == Len(s)
        a1 == IF a < 0 THEN (IF n + a < 0 THEN 0 ELSE n + a) ELSE (IF a > n THEN n ELSE a)
        b1 == IF b < 0 THEN (IF n + b < 0 THEN 0 ELSE n + b) ELSE (IF b > n THEN n ELSE b)
    IN  IF a1 >= b1 THEN <<>> ELSE SubSeq(s, a1 + 1, b1)

\* max(s.rfind(c) for c in chars): highest 0-based index of one of chars, or -1
RFindAny(s, chars) ==
    LET hits == {i \in 1..Len(s) : s[i] \in chars}
    IN  IF hits = {} THEN -1 ELSE (CHOOSE i \in hits : \A j \in hits : j <= i) - 1

\* ---------------------------------------------------------------- chunker
\* faulty variant of ChunkWindow: the window is one character too wide
ChunkWindow_Wide(text, chunk_size, start) ==
    LET end0   == start + chunk_size + 1
        chunk0 == PySlice(text, start, end0)
        break_point == RFindAny(chunk0, {".", "\n"})
        cut    == end0 < Len(text) /\ break_point > chunk_size \div 2
    IN  [chunk |-> IF cut THEN PySlice(chunk0, 0, break_point + 1) ELSE chunk0,
         end   |-> IF cut THEN start + break_point + 1 ELSE end0,
         cut   |-> cut,
         break_point |-> break_point]

\* lines 149-160 of _chunk_text: the window that starts at start, cut after
\* its last '.' or newline when that lies past the middle of the window and
\* the window ends before the end of the text
ChunkWindow(text, chunk_size, start) ==
    LET end0   == start + chunk_size
        chunk0 == PySlice(text, start, end0)
        break_point == RFindAny(chunk0, {".", "\n"})
        cut    == end0 < Len(text) /\ break_point > chunk_size \div 2
    IN  [chunk |-> IF cut THEN PySlice(chunk0, 0, break_point + 1) ELSE chunk0,
         end   |-> IF cut THEN start + break_point + 1 ELSE end0,
         cut   |-> cut,
         break_point |-> break_point]

\* line 162: start = end - overlap, after a cut window as after a full one
NextStart(end, overlap) == end - overlap

\* the while loop of RAGService._chunk_text; done = FALSE when the loop is
\* still running after fuel iterations
RECURSIVE ChunkLoop(_, _, _, _, _, _)
ChunkLoop(text, chunk_size, overlap, start, chunks, fuel) ==
    IF ~(start < Len(text)) THEN [done |-> TRUE, chunks |-> chunks]
    ELSE IF fuel = 0 THEN [done |-> FALSE, chunks |-> chunks]
    ELSE
        LET w == ChunkWindow(text, chunk_size, start)
        IN  ChunkLoop(text, chunk_size, overlap, NextStart(w.end, overlap),
                      Append(chunks, Strip(w.chunk)), fuel - 1)

\* faulty variant of FilterChunks: empty chunks are returned too
FilterChunks_KeepAll(chunks) == chunks

\* line 164: [c for c in chunks if c]
FilterChunks(chunks) == SelectSeq(chunks, LAMBDA c : c # <<>>)

\* RAGService._chunk_text: the non-empty stripped chunks, in order
ChunkText(text, chunk_size, overlap) ==
    LET r == ChunkLoop(Strip(text), chunk_size, overlap, 0, <<>>, MaxChunkIter)
    IN  FilterChunks(r.chunks)

\* texts given to the chunker directly: letters, a sentence end, whitespace
TextAlphabet == {"a", ".", " ", "\n"}
Texts == UNION { [1..n -> TextAlphabet] : n \in 0..MaxTextLen }

\* ------------------------------------------------------------ environment
\* what a backend call does: it returns ("ok") or raises an error
Errors == {"E1", "E2"}
\* ChromaDB
BackendOutcomes == {"ok"} \cup Errors
\* Redis, the LLM provider, PostgreSQL
RedisOutcomes == {"ok", "redis_error"}
LlmOutcomes == {"ok", "llm_error"}
DbOutcomes == {"ok", "db_error"}

\* uploaded documents: file names and contents
DocNames == <<"a.txt", "b.md">>
Contents == { <<" ", "\n">>,
              <<"b">>,
              <<"a", "b", ".", "c", "d", "e", "f">> }

\* the file of the documents directory, loaded when the service starts
DocsDir == [name |-> "a.txt", content |-> <<"a", "b", ".", "c", "d", "e", "f">>]

\* questions posted to /ask (AskRequest.question)
Questions == { <<"A">>, <<" ", "a">>, <<"b">> }

DocRank(name) == CHOOSE i \in 1..Len(DocNames) : DocNames[i] = name

\* ------------------------------------------------------ retrieval backend
\* the chroma collection is a set of records, one per id "{source}_{chunk_index}"
ChunkRecord(source, i, text) == [source |-> source, chunk_index |-> i, text |-> text]

\* collection.get(where={"source": filename})
Existing(st, filename) == {c \in st : c.source = filename}

\* the distance (in hundredths) the backend reports between a query and a
\* chunk; 0 for an exact match
Distance(query, text) ==
    IF text = query THEN 0
    ELSE LET common == {i \in 1..Len(text) : \E j \in 1..Len(query) : text[i] = query[j]}
         IN  100 - 10 * Cardinality(common)

RankKey(query, c) == 1000 * Distance(query, c.text) + 10 * c.chunk_index + DocRank(c.source)

\* collection.query(query_texts=[query], n_results=top_k): the top_k nearest
\* chunks, nearest first, as (document, metadata.source, distance) rows
RECURSIVE QueryRows(_, _, _)
QueryRows(st, query, top_k) ==
    IF st = {} \/ top_k = 0 THEN <<>>
    ELSE LET c == CHOOSE x \in st : \A y \in st : RankKey(query, x) <= RankKey(query, y)
         IN  <<[doc |-> c.text, source |-> c.source, distance |-> Distance(query, c.text)]>>
             \o QueryRows(st \ {c}, query, top_k - 1)

\* ------------------------------------------------------------- RAGService
\* RAGService.__init__
RagInit == [client |-> FALSE, collection |-> FALSE, available |-> FALSE,
            last_error |-> None, reconnect_attempts |-> 0]

\* faulty variant of Connect: a failed connect keeps the collection handle
Connect_KeepsCollection(r, bo) ==
    IF r.client /\ r.available THEN [rag |-> r, raised |-> None]
    ELSE IF bo = "ok"
    THEN [rag |-> [r EXCEPT !.client = TRUE, !.collection = TRUE, !.available = TRUE,
                            !.last_error = None, !.reconnect_attempts = 0],
          raised |-> None]
    ELSE [rag |-> [r EXCEPT !.available = FALSE, !.last_error = bo, !.client = FALSE],
          raised |-> bo]

\* RAGService.connect; raised is the exception it lets out, or None
Connect(r, bo) ==
    IF r.client /\ r.available THEN [rag |-> r, raised |-> None]
    ELSE IF bo = "ok"
    THEN [rag |-> [r EXCEPT !.client = TRUE, !.collection = TRUE, !.available = TRUE,
                            !.last_error = None, !.reconnect_attempts = 0],
          raised |-> None]
    ELSE [rag |-> [r EXCEPT !.available = FALSE, !.last_error = bo,
                            !.client = FALSE, !.collection = FALSE],
          raised |-> bo]

\* faulty variant of EnsureConnectionBegin: the budget allows one attempt more
EnsureConnectionBegin_OneMore(r) ==
    IF r.available /\ r.client THEN [kind |-> "ready", rag |-> r, delay |-> 0]
    ELSE IF r.reconnect_attempts > MAX_RECONNECT_ATTEMPTS
    THEN [kind |-> "fail_fast", rag |-> r, delay |-> 0]
    ELSE [kind |-> "sleep",
          rag |-> [r EXCEPT !.reconnect_attempts = r.reconnect_attempts + 1],
          delay |-> RECONNECT_BASE_DELAY * (2 ^ r.reconnect_attempts)]

\* faulty variant of EnsureConnectionBegin: the budget is not looked at
EnsureConnectionBegin_NoBudget(r) ==
    IF r.available /\ r.client THEN [kind |-> "ready", rag |-> r, delay |-> 0]
    ELSE [kind |-> "sleep",
          rag |-> [r EXCEPT !.reconnect_attempts = r.reconnect_attempts + 1],
          delay |-> RECONNECT_BASE_DELAY]

\* delay = RECONNECT_BASE_DELAY * (2 ** self._reconnect_attempts)
ReconnectDelay(attempts) == RECONNECT_BASE_DELAY * (2 ^ attempts)

\* the test every operation makes first: "if not self._available or not self._client"
NeedsConnection(r) == ~r.available \/ ~r.client

\* _ensure_connection and _try_reconnect up to "await asyncio.sleep(delay)":
\*   ready     - the connection is there, the operation goes on
\*   fail_fast - the attempt budget is used up: _try_reconnect returns False
\*   sleep     - an attempt is counted and the coroutine sleeps for delay
EnsureConnectionBegin(r) ==
    IF ~NeedsConnection(r) THEN [kind |-> "ready", rag |-> r, delay |-> 0]
    ELSE IF r.reconnect_attempts >= MAX_RECONNECT_ATTEMPTS
    THEN [kind |-> "fail_fast", rag |-> r, delay |-> 0]
    ELSE [kind |-> "sleep",
          rag |-> [r EXCEPT !.reconnect_attempts = r.reconnect_attempts + 1],
          delay |-> ReconnectDelay(r.reconnect_attempts)]

\* _try_reconnect after the sleep: connect, and True iff it did not raise
TryReconnectWake(r, bo) ==
    LET c == Connect(r, bo)
    IN  [rag |-> c.rag, ok |-> c.raised = None]

\* "score = 1 - distance if distance else 0" (hundredths)
Score(distance) == IF distance # 0 THEN 100 - distance ELSE 0

\* faulty variant of SearchOnError: the error is passed on to the caller
SearchOnError_Raises(r, err) ==
    [rag |-> [r EXCEPT !.available = FALSE, !.last_error = err],
     raised |-> err, value |-> <<>>]

\* what search does with a backend error raised by collection.query
SearchOnError(r, err) ==
    [rag |-> [r EXCEPT !.available = FALSE, !.last_error = err],
     raised |-> None, value |-> <<>>]

\* RAGService.search once the connection is there (the try block)
SearchBody(r, st, query, bo) ==
    IF bo = "ok"
    THEN [rag |-> r, raised |-> None,
          value |-> LET rows == QueryRows(st, query, TopK)
                    IN  [i \in 1..Len(rows) |->
                           [source |-> rows[i].source, chunk |-> rows[i].doc,
                            score |-> Score(rows[i].distance)]]]
    ELSE SearchOnError(r, bo)

\* RAGService.search when _ensure_connection returned False
SearchUnavailable(r) == [rag |-> r, raised |-> None, value |-> <<>>]

\* RAGService.get_context, given what its own search returned: "" for no
\* result, else the blocks "[source: {source}]\n{chunk}" joined by the delimiter
RECURSIVE ContextParts(_)
ContextParts(results) ==
    IF results = <<>> THEN <<>>
    ELSE LET part == <<"[source: ", results[1].source, "]\n">> \o results[1].chunk
         IN  IF Len(results) = 1 THEN part
             ELSE part \o <<"\n\n---\n\n">> \o ContextParts(Tail(results))

GetContext(s) ==
    IF s.raised # None THEN [raised |-> s.raised, value |-> <<>>]
    ELSE [raised |-> None, value |-> ContextParts(s.value)]

UnavailableError == "ChromaDBUnavailableError"

\* faulty variant of AddOnError: the error is logged and a count is returned
AddOnError_Swallows(r, st, err) ==
    [rag |-> [r EXCEPT !.available = FALSE, !.last_error = err], store |-> st,
     raised |-> None, value |-> 0, backend_error |-> err]

\* add_document: the except branch around the collection calls
AddOnError(r, st, err) ==
    [rag |-> [r EXCEPT !.available = FALSE, !.last_error = err], store |-> st,
     raised |-> UnavailableError, value |-> 0, backend_error |-> err]

\* add_document when _ensure_connection returned False
AddUnavailable(r, st) ==
    [rag |-> r, store |-> st, raised |-> UnavailableError, value |-> 0,
     backend_error |-> None]

AddFailPoints == {"none", "get", "delete", "add"}

\* add_document once the connection is there; failAt names the collection
\* call that raises err (delete is called only when chunks of filename exist)
AddDocumentBody(r, st, filename, content, failAt, err) ==
    LET chunks   == ChunkText(content, ChunkSize, ChunkOverlap)
        existing == Existing(st, filename)
        fresh    == {ChunkRecord(filename, i - 1, chunks[i]) : i \in 1..Len(chunks)}
    IN  IF chunks = <<>>
        THEN [rag |-> r, store |-> st, raised |-> None, value |-> 0,
              backend_error |-> None]
        ELSE IF failAt = "get" THEN AddOnError(r, st, err)
        ELSE IF failAt = "delete" /\ existing # {} THEN AddOnError(r, st, err)
        ELSE IF failAt = "add" THEN AddOnError(r, st \ existing, err)
        ELSE [rag |-> r, store |-> (st \ existing) \cup fresh, raised |-> None,
              value |-> Len(chunks), backend_error |-> None]

\* upload_document: what the route makes of add_document's outcome
UploadResponse(b) ==
    IF b.raised # None
    THEN [status |-> 500,
          detail |-> "Failed to process document. Please try again later."]
    ELSE [status |-> 200, chunks_created |-> b.value]

\* get_collection_stats: base_stats is read before the connection is ensured
BaseStats(r) == [available |-> r.available, last_error |-> r.last_error]

StatsUnavailable(r, base) ==
    [rag |-> r, raised |-> None,
     value |-> [document_count |-> 0, available |-> FALSE, last_error |-> base.last_error]]

\* faulty variant of StatsBody: a backend error leaves the store marked available
StatsBody_StaysAvailable(r, st, base, bo) ==
    IF bo = "ok"
    THEN [rag |-> r, raised |-> None,
          value |-> [document_count |-> Cardinality(st), available |-> TRUE,
                     last_error |-> base.last_error]]
    ELSE [rag |-> r, raised |-> None,
          value |-> [document_count |-> 0, available |-> FALSE, last_error |-> bo]]

\* get_collection_stats once the connection is there (the try block)
StatsBody(r, st, base, bo) ==
    IF bo = "ok"
    THEN [rag |-> r, raised |-> None,
          value |-> [document_count |-> Cardinality(st), available |-> TRUE,
                     last_error |-> base.last_error]]
    ELSE [rag |-> [r EXCEPT !.available = FALSE, !.last_error = bo], raised |-> None,
          value |-> [document_count |-> 0, available |-> FALSE, last_error |-> bo]]

\* faulty variant of CheckConnection: the attempt count is left as it was
CheckConnection_KeepsCount(r, boConnect, boHeartbeat) ==
    LET c == IF ~r.client THEN Connect(r, boConnect) ELSE [rag |-> r, raised |-> None]
    IN  IF c.raised # None
        THEN [rag |-> [c.rag EXCEPT !.available = FALSE, !.last_error = c.raised],
              value |-> FALSE, caught |-> c.raised]
        ELSE IF boHeartbeat # "ok"
        THEN [rag |-> [c.rag EXCEPT !.available = FALSE, !.last_error = boHeartbeat],
              value |-> FALSE, caught |-> boHeartbeat]
        ELSE [rag |-> [c.rag EXCEPT !.available = TRUE], value |-> TRUE, caught |-> None]

\* RAGService.check_connection: connect when there is no client, then
\* heartbeat; caught is the exception its except branch caught, or None
CheckConnection(r, boConnect, boHeartbeat) ==
    LET c == IF ~r.client THEN Connect(r, boConnect) ELSE [rag |-> r, raised |-> None]
    IN  IF c.raised # None
        THEN [rag |-> [c.rag EXCEPT !.available = FALSE, !.last_error = c.raised],
              value |-> FALSE, caught |-> c.raised]
        ELSE IF boHeartbeat # "ok"
        THEN [rag |-> [c.rag EXCEPT !.available = FALSE, !.last_error = boHeartbeat],
              value |-> FALSE, caught |-> boHeartbeat]
        ELSE [rag |-> [c.rag EXCEPT !.available = TRUE, !.reconnect_attempts = 0],
              value |-> TRUE, caught |-> None]

\* RAGService.reset_reconnect_counter
ResetReconnectCounter(r) == [r EXCEPT !.reconnect_attempts = 0]

\* ----------------------------------------------------------- CacheService
\* faulty variant of HashQuestion: the question is hashed as it was given
HashQuestion_Raw(question) == <<"faq:", question>>

\* faulty variant of HashQuestion: the key does not depend on the question
HashQuestion_OneKey(question) == <<"faq:", <<>>>>

\* faulty variant of HashQuestion: the case of the question is kept
HashQuestion_KeepCase(question) == <<"faq:", Strip(question)>>

\* CacheService._hash_question: "faq:" + sha256(question.lower().strip()); the
\* digest is represented by the text it is taken of (no collisions)
HashQuestion(question) == <<"faq:", Strip(Lower(question))>>

\* json.dumps / json.loads of the cached dict; a payload that is not the
\* encoding of a value does not parse
JsonDumps(v) == <<"json", v>>
JsonParses(p) == Len(p) = 2 /\ p[1] = "json"
JsonLoads(p) == p[2]

\* self._client.keys("faq:*"): the keys of the keyspace that begin with "faq:"
\* faulty variant: every key of the keyspace
KeysMatching_All(kv) == DOMAIN kv

KeysMatching(kv) == {k \in DOMAIN kv : k[1] = "faq:"}

\* self._client.delete(*keys): the keyspace without them, and the number of
\* keys that were there
RedisDelete(kv, keys) ==
    [kv |-> [k \in DOMAIN kv \ keys |-> kv[k]],
     deleted |-> Cardinality(keys \cap DOMAIN kv)]

\* a value json.dumps raises on (a set, an object, a circular reference)
Unserializable == [unserializable |-> TRUE]
JsonSerializable(v) == "unserializable" \notin DOMAIN v

\* what an entry can hold that json.loads does not give a value for: text that
\* is not JSON, the head of a payload that was cut off, the empty string
DamagedPayloads == { <<"{", [text |-> "not json"]>>, <<"json">>, <<>> }

\* faulty variant of GetCachedAnswer: json.loads stands outside the try
GetCachedAnswer_ParseRaises(kv, question, bo) ==
    LET key == HashQuestion(question)
    IN  IF bo # "ok" THEN [raised |-> None, value |-> Nil]
        ELSE IF key \notin DOMAIN kv THEN [raised |-> None, value |-> Nil]
        ELSE IF Len(kv[key]) = 0 THEN [raised |-> None, value |-> Nil]
        ELSE IF ~JsonParses(kv[key]) THEN [raised |-> "JSONDecodeError", value |-> Nil]
        ELSE [raised |-> None, value |-> JsonLoads(kv[key])]

\* CacheService.get_cached_answer: the dict, or None on a miss, an empty
\* value ("if cached:"), a Redis error or a payload that does not parse;
\* never raises
GetCachedAnswer(kv, question, bo) ==
    LET key == HashQuestion(question)
    IN  IF bo # "ok" THEN [raised |-> None, value |-> Nil]
        ELSE IF key \notin DOMAIN kv THEN [raised |-> None, value |-> Nil]
        ELSE IF Len(kv[key]) = 0 THEN [raised |-> None, value |-> Nil]
        ELSE IF ~JsonParses(kv[key]) THEN [raised |-> None, value |-> Nil]
        ELSE [raised |-> None, value |-> JsonLoads(kv[key])]

\* CacheService.set_cached_answer: setex(key, ttl, json.dumps(answer)); True,
\* or False when json.dumps or Redis raises
SetCachedAnswer(kv, question, answer, bo) ==
    LET key == HashQuestion(question)
    IN  IF ~JsonSerializable(answer) THEN [kv |-> kv, raised |-> None, value |-> FALSE]
        ELSE IF bo # "ok" THEN [kv |-> kv, raised |-> None, value |-> FALSE]
        ELSE [kv |-> [k \in DOMAIN kv \cup {key} |->
                        IF k = key THEN JsonDumps(answer) ELSE kv[k]],
              raised |-> None, value |-> TRUE]

\* ------------------------------------------------------------- LLMService
NoContextMarker == "Context not found."

\* the user message generate_answer builds (texts abbreviated)
UserMessage(question, context) ==
    <<"Context from the knowledge base:\n">>
    \o (IF context # <<>> THEN context ELSE <<NoContextMarker>>)
    \o <<"\n\nUser question: ">> \o question
    \o <<"\n\nAnswer using only the context.">>

\* what the provider can return: (answer, tokens)
LlmReplies == { [text |-> "ans1", tokens |-> 7], [text |-> "ans2", tokens |-> 9] }

\* faulty variant of GenerateAttempt: the provider is called a fourth time
GenerateAttempt_FourCalls(attempt, bo, reply) ==
    IF bo = "ok" THEN [kind |-> "return", answer |-> reply.text, tokens |-> reply.tokens,
                       raised |-> None]
    ELSE IF attempt > MaxGenAttempts
    THEN [kind |-> "raise", answer |-> None, tokens |-> 0, raised |-> bo]
    ELSE [kind |-> "retry", answer |-> None, tokens |-> 0, raised |-> None]

\* one attempt of generate_answer under @retry(stop=stop_after_attempt(3)):
\* attempt is the number of this attempt (1..); the provider returns reply or
\* raises bo; after the last attempt the RetryError (carrying bo) is raised
GenerateAttempt(attempt, bo, reply) ==
    IF bo = "ok" THEN [kind |-> "return", answer |-> reply.text, tokens |-> reply.tokens,
                       raised |-> None]
    ELSE IF attempt >= MaxGenAttempts
    THEN [kind |-> "raise", answer |-> None, tokens |-> 0, raised |-> bo]
    ELSE [kind |-> "retry", answer |-> None, tokens |-> 0, raised |-> None]

\* the providers LLMService.__init__ registers, and the names a caller can
\* give set_provider ("custom" can be registered later, "unknown" never is)
DefaultProviders == {"anthropic", "openai"}
ProviderNames == DefaultProviders \cup {"custom", "unknown"}

UnknownProvider == "ValueError: unknown provider"
NotConfigured == "ValueError: provider is not configured"

\* faulty variant of SetProvider: the provider is made active before
\* is_configured is asked
SetProvider_AssignsFirst(l, name) ==
    IF name \notin l.registered THEN [llm |-> l, raised |-> UnknownProvider]
    ELSE IF name \notin l.configured
    THEN [llm |-> [l EXCEPT !.current = name, !.active = l.instance[name]],
          raised |-> NotConfigured]
    ELSE [llm |-> [l EXCEPT !.current = name, !.active = l.instance[name]],
          raised |-> None]

\* LLMService.set_provider(name): registered are the names of the registry,
\* instance[name] the provider object it holds under name, configured the
\* providers whose is_configured() is true; current is the name of the
\* active provider and active the provider object
SetProvider(l, name) ==
    IF name \notin l.registered THEN [llm |-> l, raised |-> UnknownProvider]
    ELSE IF name \notin l.configured THEN [llm |-> l, raised |-> NotConfigured]
    ELSE [llm |-> [l EXCEPT !.current = name, !.active = l.instance[name]],
          raised |-> None]

\* the names a provider object given to register_provider can have
RegistrableNames == DefaultProviders \cup {"custom"}

\* LLMProviderRegistry.register: self._providers[provider.name] = provider;
\* the provider objects registered under one name are numbered 1, 2, ...
Register(l, name) ==
    [l EXCEPT !.registered = @ \cup {name}, !.instance[name] = @ + 1]

\* ----------------------------------------------------- routes.ask_question
ElapsedMs == "elapsed_ms"
GenericDetail == "Failed to generate answer. Please try again later."

\* SourceInfo(document=source, chunk=chunk[:200] + "..." if len(chunk) > 200 else chunk)
SourceInfo(res) ==
    [document |-> res.source,
     chunk |-> IF Len(res.chunk) > SourceExcerptLen
               THEN PySlice(res.chunk, 0, SourceExcerptLen) \o <<"...">>
               ELSE res.chunk]

\* the fields a cached dict must have for the hit branch to build a response
IsPackage(c) ==
    /\ c # Nil
    /\ {"answer", "sources", "tokens_used"} \subseteq DOMAIN c

\* faulty variant of CacheHitResponse: a payload without the fields is
\* answered as an empty package
CacheHitResponse_AnyPayload(c) ==
    IF c.raised # None \/ c.value = Nil
    THEN [ok |-> FALSE, response |-> Nil]
    ELSE IF ~IsPackage(c.value)
    THEN [ok |-> TRUE,
          response |-> [answer |-> None, sources |-> <<>>, tokens_used |-> 0,
                        response_time_ms |-> ElapsedMs, cached |-> TRUE]]
    ELSE [ok |-> TRUE,
          response |-> [answer |-> c.value.answer, sources |-> c.value.sources,
                        tokens_used |-> c.value.tokens_used,
                        response_time_ms |-> ElapsedMs, cached |-> TRUE]]

\* faulty variant of CacheHitResponse: the hit branch is never taken
CacheHitResponse_NeverHit(c) == [ok |-> FALSE, response |-> Nil]

\* "if cached:" and the AskResponse built from it; ok = FALSE when the branch
\* is not taken or raises inside the try (the request goes on as a miss)
CacheHitResponse(c) ==
    IF c.raised # None \/ c.value = Nil \/ ~IsPackage(c.value)
    THEN [ok |-> FALSE, response |-> Nil]
    ELSE [ok |-> TRUE,
          response |-> [answer |-> c.value.answer, sources |-> c.value.sources,
                        tokens_used |-> c.value.tokens_used,
                        response_time_ms |-> ElapsedMs, cached |-> TRUE]]

\* faulty variant of AskRetrieval: the sources are listed last result first
AskRetrieval_Reversed(s, c) ==
    IF s.raised # None \/ c.raised # None
    THEN [sources |-> <<>>, context |-> <<>>]
    ELSE [sources |-> [i \in 1..Len(s.value) |-> SourceInfo(s.value[Len(s.value) + 1 - i])],
          context |-> c.value]

\* the try/except around rag_service.search and rag_service.get_context:
\* s is the outcome of search, c that of get_context (called only when search
\* returned); either one raising leaves sources = [] and context = ""
AskRetrieval(s, c) ==
    IF s.raised # None \/ c.raised # None
    THEN [sources |-> <<>>, context |-> <<>>]
    ELSE [sources |-> [i \in 1..Len(s.value) |-> SourceInfo(s.value[i])],
          context |-> c.value]

\* faulty variant of GenerationFailed: the error of the backend is passed on
GenerationFailed_Leaks(raised) == [status |-> 500, detail |-> raised]

\* the HTTPException raised when generate_answer raised
GenerationFailed(raised) == [status |-> 500, detail |-> GenericDetail]

\* AskResponse(answer, sources, tokens_used, response_time_ms, cached=False)
AskResponse(answer, sources, tokens_used) ==
    [answer |-> answer, sources |-> sources, tokens_used |-> tokens_used,
     response_time_ms |-> ElapsedMs, cached |-> FALSE]

\* cache_data of the route
CacheData(answer, sources, tokens_used) ==
    [answer |-> answer, sources |-> sources, tokens_used |-> tokens_used]

\* ------------------------------------------------------------------ state
VARIABLES
    rag,        \* the RAGService instance: client, collection, available, last_error, reconnect_attempts
    store,      \* the chroma collection: a set of chunk records
    redis,      \* the Redis keyspace: key -> payload
    phase,      \* the application: "boot", "loading" (lifespan), then "serving"
    adm,        \* the coroutines of the document and stats routes
    ask,        \* the /ask coroutines, one per request slot
    writes,     \* history variable: per normalized question, the number of
                \* successful cache sets (2 stands for "two or more"), the
                \* package of the first one, the question it was asked with
                \* and the package of the last one
    slept,      \* history variable: the backoff sleep started since the last
                \* successful connect, in seconds (SleptCap stands for more)
    cache_call, \* the last call a direct caller made of the cache service
    clear,      \* the coroutine of a clear_cache call: the keys it was given
                \* and what it returned
    llm,        \* the LLMService instance: registry, settings, active provider,
                \* and its callers: the last set_provider, a generate_answer
    chunker     \* a call of RAGService._chunk_text, iteration by iteration

vars == <<rag, store, redis, phase, adm, ask, writes, slept, cache_call, clear, llm, chunker>>

Reqs == 1..MaxRequests
Adms == 1..MaxAdmins

\* the claims' normalization of a question as posted: lowercase(trim(q))
NormQ(raw) == Lower(Strip(raw))

NoWrites == [n |-> 0, first |-> Nil, by |-> <<>>, last |-> Nil]

\* history: the sleeps of one failure episode within the budget add up to
\* (2^MAX_RECONNECT_ATTEMPTS - 1) * RECONNECT_BASE_DELAY; one more is "more"
SleptCap == (2 ^ MAX_RECONNECT_ATTEMPTS - 1) * RECONNECT_BASE_DELAY + 1

AddSleep(total, delay) == IF total + delay > SleptCap THEN SleptCap ELSE total + delay

\* a successful connect ends the failure episode
EpisodeSleep(connected, total) == IF connected THEN 0 ELSE total

ClearIdle == [pc |-> "idle", keys |-> {}, backend |-> "ok", raised |-> None, value |-> 0]

\* no generate_answer call is running
GenIdle ==
    [pc |-> "idle", calls |-> 0, outcomes |-> <<>>, reply |-> Nil,
     answer |-> None, tokens |-> 0, raised |-> None]

\* the module-level LLMService(): the default providers are registered and
\* set_provider(settings.llm_provider) has succeeded (else the import fails)
LlmInit ==
    [registered |-> DefaultProviders, configured |-> {"anthropic"},
     instance |-> [n \in RegistrableNames |-> IF n \in DefaultProviders THEN 1 ELSE 0],
     current |-> "anthropic", active |-> 1,
     sel |-> [name |-> None, raised |-> None, tick |-> 0],
     gen |-> GenIdle]

\* no _chunk_text call is running
ChunkerIdle ==
    [pc |-> "idle", raw |-> <<>>, text |-> <<>>, chunk_size |-> 0, overlap |-> 0,
     start |-> 0, windows |-> <<>>, chunks |-> <<>>, result |-> <<>>]

AskIdle ==
    [pc |-> "idle", raw |-> <<>>, question |-> <<>>,
     results |-> <<>>, sources |-> <<>>, context |-> <<>>, prompt |-> <<>>,
     attempts |-> 0, answer |-> None, tokens |-> 0,
     response |-> Nil, outcome |-> None, error |-> Nil,
     \* history fields
     trace |-> <<>>, lookup_ok |-> FALSE, found |-> Nil, expect_hit |-> FALSE,
     search_err |-> None, context_err |-> None, set_ok |-> FALSE,
     \* history: the reconnect tries the searches of this request have made
     tries |-> 0]

\* gave_up is a history field: how _ensure_connection came to return False
AdmRec(pc, op, name, content, base, result) ==
    [pc |-> pc, op |-> op, name |-> name, content |-> content, base |-> base,
     result |-> result, gave_up |-> None]

AdmIdle == AdmRec("idle", None, None, <<>>, Nil, Nil)

Init ==
    /\ rag = RagInit
    /\ store = {}
    /\ redis = <<>>
    /\ phase = "boot"
    /\ adm = [a \in Adms |-> AdmIdle]
    /\ ask = [r \in Reqs |-> AskIdle]
    /\ writes = [n \in {NormQ(q) : q \in Questions} |-> NoWrites]
    /\ slept = 0
    /\ cache_call = Nil
    /\ clear = ClearIdle
    /\ llm = LlmInit
    /\ chunker = ChunkerIdle

Serving == phase = "serving"

\* ------------------------------------------------------------- lifespan
\* lines 46-48: "await rag_service.connect()"; when it raises, the except of
\* line 56 skips the loading of the documents
Lifespan ==
    /\ phase = "boot"
    /\ \E bo \in BackendOutcomes :
         LET c == Connect(rag, bo)
         IN  /\ rag' = c.rag
             /\ phase' = IF c.raised = None THEN "loading" ELSE "serving"
             /\ slept' = EpisodeSleep(c.raised = None, slept)
    /\ UNCHANGED <<store, redis, adm, ask, writes, cache_call, clear, llm, chunker>>

\* lines 51-55: load_documents_from_directory adds the file of the documents
\* directory; what add_document raises is logged and dropped. The connection
\* is there (connect has just returned), so nothing is awaited
LoadDocuments ==
    /\ phase = "loading"
    /\ \E failAt \in AddFailPoints, err \in Errors :
         LET b == AddDocumentBody(rag, store, DocsDir.name, DocsDir.content, failAt, err)
         IN  /\ rag' = b.rag
             /\ store' = b.store
             /\ phase' = "serving"
    /\ UNCHANGED <<redis, adm, ask, writes, slept, cache_call, clear, llm, chunker>>

\* --------------------------------------------- documents, stats, health
\* what the caller of an operation gets
AddResult(name, content, b) ==
    [op |-> "add", name |-> name, content |-> content, raised |-> b.raised,
     value |-> b.value, backend_error |-> b.backend_error,
     response |-> UploadResponse(b)]

\* backend_error is what collection.count raised
StatsResult(b, backend_error) ==
    [op |-> "stats", raised |-> b.raised, value |-> b.value,
     backend_error |-> backend_error]

\* search(query) returned; backend_error is what collection.query raised
SearchResult(query, s, backend_error) ==
    [op |-> "search", query |-> query, raised |-> s.raised, value |-> s.value,
     backend_error |-> backend_error]

Returned(result) == AdmRec("returned", None, None, <<>>, Nil, result)

\* the operation of coroutine a that runs once the connection is there (rg is
\* the service state at that point) and returns to its caller; content is the
\* text the operation was given: the document, or the query of a search
AdmRun(a, op, name, content, base, rg) ==
    CASE op = "add" ->
           \E failAt \in AddFailPoints, err \in Errors :
             LET b == AddDocumentBody(rg, store, name, content, failAt, err)
             IN  /\ rag' = b.rag
                 /\ store' = b.store
                 /\ adm' = [adm EXCEPT ![a] = Returned(AddResult(name, content, b))]
      [] op = "search" ->
           \E bo \in BackendOutcomes :
             LET s == SearchBody(rg, store, content, bo)
             IN  /\ rag' = s.rag
                 /\ store' = store
                 /\ adm' = [adm EXCEPT ![a] = Returned(
                              SearchResult(content, s, IF bo = "ok" THEN None ELSE bo))]
      [] OTHER ->
           \E bo \in BackendOutcomes :
             LET b == StatsBody(rg, store, base, bo)
             IN  /\ rag' = b.rag
                 /\ store' = store
                 /\ adm' = [adm EXCEPT ![a] = Returned(
                              StatsResult(b, IF bo = "ok" THEN None ELSE bo))]

\* the same operation when _ensure_connection returned False: at once (the
\* attempt budget is used up), or after the sleep (the connect failed)
AdmUnavailable(a, op, name, content, base, rg) ==
    /\ rag' = rg
    /\ store' = store
    /\ adm' = [adm EXCEPT ![a] =
                 [Returned(
                    CASE op = "add" -> AddResult(name, content, AddUnavailable(rg, store))
                      [] op = "search" -> SearchResult(content, SearchUnavailable(rg), None)
                      [] OTHER -> StatsResult(StatsUnavailable(rg, base), None))
                  EXCEPT !.gave_up = IF adm[a].pc = "idle" THEN "fail_fast"
                                     ELSE "reconnect_failed"]]

\* coroutine a calls add_document, search or get_collection_stats: it runs to its
\* return, or to the reconnect sleep
AdmBegin(a, op, name, content) ==
    /\ Serving
    /\ adm[a].pc = "idle"
    /\ LET e    == EnsureConnectionBegin(rag)
           base == IF op = "stats" THEN BaseStats(rag) ELSE Nil
       IN  CASE e.kind = "ready" -> AdmRun(a, op, name, content, base, e.rag)
             [] e.kind = "fail_fast" -> AdmUnavailable(a, op, name, content, base, e.rag)
             [] OTHER -> /\ rag' = e.rag
                         /\ store' = store
                         /\ adm' = [adm EXCEPT ![a] =
                                      AdmRec("sleeping", op, name, content, base, Nil)]
    /\ slept' = AddSleep(slept, EnsureConnectionBegin(rag).delay)
    /\ UNCHANGED <<redis, phase, ask, writes, cache_call, clear, llm, chunker>>

\* POST /documents: upload_document -> rag_service.add_document(name, content)
UploadDocument(a) ==
    \E i \in 1..Len(DocNames), content \in Contents : AdmBegin(a, "add", DocNames[i], content)

\* POST /documents with the file of the documents directory, unchanged
ReingestDocument(a) == AdmBegin(a, "add", DocsDir.name, DocsDir.content)

\* GET /stats: rag_service.get_collection_stats()
GetStats(a) == AdmBegin(a, "stats", None, <<>>)

\* questions that are, word for word, the text of a stored chunk
ExactQueries(st) == {c.text : c \in st}

\* rag_service.search(question), as ask_question calls it with the stripped
\* question, next to the document and stats routes
SearchDocuments(a) ==
    \E q \in Questions \cup ExactQueries(store) : AdmBegin(a, "search", None, Strip(q))

\* the reconnect sleep of a's operation is over: connect, then go on
AdmWake(a) ==
    /\ adm[a].pc = "sleeping"
    /\ \E bo \in BackendOutcomes :
         LET w == TryReconnectWake(rag, bo)
             m == adm[a]
         IN  /\ IF w.ok THEN AdmRun(a, m.op, m.name, m.content, m.base, w.rag)
                ELSE AdmUnavailable(a, m.op, m.name, m.content, m.base, w.rag)
             /\ slept' = EpisodeSleep(w.ok, slept)
    /\ UNCHANGED <<redis, phase, ask, writes, cache_call, clear, llm, chunker>>

\* GET /health: rag_service.check_connection()
HealthCheck(a) ==
    /\ Serving
    /\ adm[a].pc = "idle"
    /\ \E bo1 \in BackendOutcomes, bo2 \in BackendOutcomes :
         LET h == CheckConnection(rag, bo1, bo2)
         IN  /\ rag' = h.rag
             /\ adm' = [adm EXCEPT ![a] = Returned(
                          [op |-> "check", value |-> h.value, backend_error |-> h.caught])]
             /\ slept' = EpisodeSleep(h.value \/ (~rag.client /\ bo1 = "ok"), slept)
    /\ UNCHANGED <<store, redis, phase, ask, writes, cache_call, clear, llm, chunker>>

\* the route has answered; the coroutine serves the next request
AdmReturn(a) ==
    /\ adm[a].pc = "returned"
    /\ adm' = [adm EXCEPT ![a] = AdmIdle]
    /\ UNCHANGED <<rag, store, redis, phase, ask, writes, slept, cache_call, clear, llm, chunker>>

\* rag_service.reset_reconnect_counter()
ResetCounter ==
    /\ Serving
    /\ rag' = ResetReconnectCounter(rag)
    /\ UNCHANGED <<store, redis, phase, adm, ask, writes, slept, cache_call, clear, llm, chunker>>

\* ------------------------------------------------------------- POST /ask
\* the request ends: a response is returned, or an exception leaves the route;
\* the locals of the coroutine are gone
Finish(a, outcome, response, error) ==
    [AskIdle EXCEPT !.pc = "done", !.raw = a.raw, !.question = a.question,
                    !.outcome = outcome, !.response = response, !.error = error,
                    !.trace = a.trace, !.lookup_ok = a.lookup_ok, !.found = a.found,
                    !.expect_hit = a.expect_hit, !.set_ok = a.set_ok]

\* lines 139-159: strip the question, look it up in the cache, return on a hit
AskCacheLookup(r) ==
    /\ Serving
    /\ ask[r].pc = "idle"
    /\ \E raw \in Questions, bo \in RedisOutcomes :
         LET question == Strip(raw)
             c == GetCachedAnswer(redis, question, bo)
             h == CacheHitResponse(c)
             a == [ask[r] EXCEPT !.raw = raw, !.question = question,
                                 !.trace = <<"cache_lookup">>,
                                 !.lookup_ok = (bo = "ok"),
                                 !.found = c.value,
                                 !.expect_hit = (writes[NormQ(raw)].n > 0)]
         IN  ask' = [ask EXCEPT ![r] =
                       IF h.ok THEN Finish(a, "response", h.response, Nil)
                       ELSE [a EXCEPT !.pc = "search"]]
    /\ UNCHANGED <<rag, store, redis, phase, adm, writes, slept, cache_call, clear, llm, chunker>>

\* the route after rag_service.search returned s (lines 163, 171-175)
AfterSearch(a, s) ==
    IF s.raised # None
    THEN [a EXCEPT !.pc = "generate", !.sources = <<>>, !.context = <<>>]
    ELSE [a EXCEPT !.pc = "context", !.results = s.value]

\* the route after rag_service.get_context returned c (lines 164-175)
AfterContext(a, c) ==
    LET rt == AskRetrieval([raised |-> None, value |-> a.results], c)
    IN  [a EXCEPT !.pc = "generate", !.sources = rt.sources, !.context = rt.context]

\* what the route does with the outcome s of the search made at pc
After(a, pc, s) ==
    IF pc = "search" THEN AfterSearch(a, s) ELSE AfterContext(a, GetContext(s))

Unavailable == "unavailable"

\* history: why the search made at pc got nothing from the store: None (it
\* got the rows), Unavailable (no connection: the budget is used up, or the
\* reconnect failed), or the error the query raised
MarkFailed(a, pc, why) ==
    IF pc = "search" THEN [a EXCEPT !.search_err = why]
    ELSE [a EXCEPT !.context_err = why]

\* a call of RAGService.search by request r at position pc ("search": line
\* 163, "context": inside get_context, line 164): it runs to its return, or to
\* the reconnect sleep
SearchCall(r, pc) ==
    /\ ask[r].pc = pc
    /\ LET e == EnsureConnectionBegin(rag)
           a == [ask[r] EXCEPT !.trace = Append(@, pc)]
       IN  CASE e.kind = "ready" ->
                  \E bo \in BackendOutcomes :
                    LET s == SearchBody(e.rag, store, a.question, bo)
                    IN  /\ rag' = s.rag
                        /\ ask' = [ask EXCEPT ![r] = After(MarkFailed(a, pc, IF bo = "ok" THEN None ELSE bo), pc, s)]
             [] e.kind = "fail_fast" ->
                  LET s == SearchUnavailable(e.rag)
                  IN  /\ rag' = s.rag
                      /\ ask' = [ask EXCEPT ![r] = After(MarkFailed(a, pc, Unavailable), pc, s)]
             [] OTHER ->
                  /\ rag' = e.rag
                  /\ ask' = [ask EXCEPT ![r] =
                               [a EXCEPT !.pc = pc \o "_sleep", !.tries = @ + 1]]
    /\ slept' = AddSleep(slept, EnsureConnectionBegin(rag).delay)
    /\ UNCHANGED <<store, redis, phase, adm, writes, cache_call, clear, llm, chunker>>

\* the reconnect sleep of that call is over: connect, then query or give up
SearchWake(r, pc) ==
    /\ ask[r].pc = pc \o "_sleep"
    /\ \E bo1 \in BackendOutcomes, bo2 \in BackendOutcomes :
         LET w == TryReconnectWake(rag, bo1)
             s == IF w.ok THEN SearchBody(w.rag, store, ask[r].question, bo2)
                  ELSE SearchUnavailable(w.rag)
         IN  /\ rag' = s.rag
             /\ ask' = [ask EXCEPT ![r] =
                          After(MarkFailed(ask[r], pc,
                                           IF ~w.ok THEN Unavailable
                                           ELSE IF bo2 = "ok" THEN None ELSE bo2), pc, s)]
             /\ slept' = EpisodeSleep(w.ok, slept)
    /\ UNCHANGED <<store, redis, phase, adm, writes, cache_call, clear, llm, chunker>>

\* line 163: search_results = await rag_service.search(question)
AskSearch(r) == SearchCall(r, "search")
AskSearchWake(r) == SearchWake(r, "search")

\* line 164: context = await rag_service.get_context(question)
AskGetContext(r) == SearchCall(r, "context")
AskGetContextWake(r) == SearchWake(r, "context")

\* lines 201-210: the answer is there, the response is built; of the locals,
\* the route only uses question, answer, sources and response from here on
Generated(a, g) ==
    [AskIdle EXCEPT !.pc = "cache_set", !.raw = a.raw, !.question = a.question,
                    !.sources = a.sources, !.prompt = a.prompt,
                    !.answer = g.answer, !.tokens = g.tokens,
                    !.response = AskResponse(g.answer, a.sources, g.tokens),
                    !.trace = a.trace, !.expect_hit = a.expect_hit]

\* lines 177-210: one attempt of llm_service.generate_answer(question, context)
AskGenerate(r) ==
    /\ ask[r].pc = "generate"
    /\ \E bo \in LlmOutcomes, reply \in LlmReplies :
         LET a0 == ask[r]
             a  == [a0 EXCEPT !.attempts = @ + 1,
                              !.prompt = UserMessage(a0.question, a0.context),
                              !.trace = IF a0.attempts = 0 THEN Append(@, "generate") ELSE @]
             g  == GenerateAttempt(a.attempts, bo, reply)
         IN  ask' = [ask EXCEPT ![r] =
                       CASE g.kind = "return" ->
                              Generated(a, g)
                         [] g.kind = "retry" -> a
                         [] OTHER -> Finish(a, "http_error", Nil, GenerationFailed(g.raised))]
    /\ UNCHANGED <<rag, store, redis, phase, adm, writes, slept, cache_call, clear, llm, chunker>>

\* history: a successful set of package for the question raw
CountWrite(w, raw, package) ==
    [w EXCEPT ![NormQ(raw)] = IF @.n = 0 THEN [n |-> 1, first |-> package, by |-> raw,
                                               last |-> package]
                              ELSE [@ EXCEPT !.n = 2, !.last = package]]

\* lines 212-221: cache_service.set_cached_answer(question, cache_data) in try/except
AskCacheSet(r) ==
    /\ ask[r].pc = "cache_set"
    /\ \E bo \in RedisOutcomes :
         LET a == ask[r]
             data == CacheData(a.answer, a.sources, a.tokens)
             w == SetCachedAnswer(redis, a.question, data, bo)
         IN  /\ redis' = w.kv
             /\ ask' = [ask EXCEPT ![r] =
                          [a EXCEPT !.pc = "history", !.set_ok = (w.value = TRUE),
                                    !.trace = Append(@, "cache_set")]]
             /\ writes' = IF w.value = TRUE THEN CountWrite(writes, a.raw, data)
                          ELSE writes
    /\ UNCHANGED <<rag, store, phase, adm, slept, cache_call, clear, llm, chunker>>

\* lines 223-234: db.add(history_entry); await db.commit(). The table is
\* written and never read by the program: only the outcome of the commit is
\* modelled
AskHistory(r) ==
    /\ ask[r].pc = "history"
    /\ \E bo \in DbOutcomes :
         LET a == [ask[r] EXCEPT !.trace = Append(@, "history")]
         IN  ask' = [ask EXCEPT ![r] =
                       IF bo = "ok" THEN Finish(a, "response", a.response, Nil)
                       ELSE [a EXCEPT !.pc = "rollback"]]
    /\ UNCHANGED <<rag, store, redis, phase, adm, writes, slept, cache_call, clear, llm, chunker>>

\* what the except branch of the history block lets out: "await db.rollback()"
\* is not inside a try
RollbackOutcome(a, bo) ==
    IF bo = "ok" THEN Finish(a, "response", a.response, Nil)
    ELSE Finish(a, "raised", Nil, [exception |-> bo])

\* lines 235-239: the except branch, then "return response"
AskRollback(r) ==
    /\ ask[r].pc = "rollback"
    /\ \E bo \in DbOutcomes :
         ask' = [ask EXCEPT ![r] = RollbackOutcome(ask[r], bo)]
    /\ UNCHANGED <<rag, store, redis, phase, adm, writes, slept, cache_call, clear, llm, chunker>>

\* the response (or the error) has been sent; the slot serves the next request
AskRespond(r) ==
    /\ ask[r].pc = "done"
    /\ ask' = [ask EXCEPT ![r] = AskIdle]
    /\ UNCHANGED <<rag, store, redis, phase, adm, writes, slept, cache_call, clear, llm, chunker>>

\* payloads that parse and are no package: a JSON array, and an object
\* without tokens_used
ForeignPayloads ==
    { [array |-> <<"item1", "item2">>], [answer |-> "ans1", sources |-> <<>>] }

\* another writer of the Redis instance leaves such a payload under the key
\* of a question that has no entry, between two requests
CacheForeignWrite ==
    /\ Serving
    /\ \A r \in Reqs : ask[r].pc = "idle"
    /\ \E q \in Questions, v \in ForeignPayloads :
         LET key == HashQuestion(Strip(q))
         IN  /\ key \notin DOMAIN redis
             /\ redis' = [k \in DOMAIN redis \cup {key} |->
                            IF k = key THEN JsonDumps(v) ELSE redis[k]]
    /\ UNCHANGED <<rag, store, phase, adm, ask, writes, slept, cache_call, clear, llm, chunker>>

\* ------------------------------------------- the cache service, called directly
\* the values a direct caller gives set_cached_answer
Packages ==
    { CacheData("ans1", <<>>, 7), CacheData("ans2", <<>>, 9), Unserializable }

\* what is kept of a call: its arguments, the outcome of the Redis command
\* (backend), the entry the key held before the call, and what came back:
\* value from get_cached_answer, stored from set_cached_answer
CacheCall(op, question, answer, bo, raised, value, stored) ==
    LET key == HashQuestion(question)
    IN  [op |-> op, question |-> question, answer |-> answer, backend |-> bo,
         key |-> key, present |-> key \in DOMAIN redis,
         payload |-> IF key \in DOMAIN redis THEN redis[key] ELSE <<>>,
         raised |-> raised, value |-> value, stored |-> stored]

\* await cache_service.get_cached_answer(question)
CacheGet ==
    /\ \E question \in Questions, bo \in RedisOutcomes :
         LET c == GetCachedAnswer(redis, question, bo)
         IN  cache_call' = CacheCall("get", question, Nil, bo, c.raised, c.value, FALSE)
    /\ UNCHANGED <<rag, store, redis, phase, adm, ask, writes, slept, clear, llm, chunker>>

\* await cache_service.set_cached_answer(question, answer)
CacheSet ==
    /\ \E question \in Questions, answer \in Packages, bo \in RedisOutcomes :
         LET w == SetCachedAnswer(redis, question, answer, bo)
         IN  /\ redis' = w.kv
             /\ cache_call' = CacheCall("set", question, answer, bo, w.raised, Nil, w.value)
             /\ writes' = IF w.value = TRUE THEN CountWrite(writes, question, answer)
                          ELSE writes
    /\ UNCHANGED <<rag, store, phase, adm, ask, slept, clear, llm, chunker>>

\* Redis is shared: another writer leaves a payload under a key of the cache
\* that is not the JSON of a value
CacheDamage ==
    /\ \E key \in DOMAIN redis, p \in DamagedPayloads :
         redis' = [redis EXCEPT ![key] = p]
    /\ UNCHANGED <<rag, store, phase, adm, ask, writes, slept, cache_call, clear, llm, chunker>>

\* ------------------------------------------------ the LLM service, called directly
\* llm_service.set_provider(name)
LlmSetProvider ==
    /\ \E name \in ProviderNames :
         LET r == SetProvider(llm, name)
         IN  llm' = [r.llm EXCEPT !.sel = [name |-> name, raised |-> r.raised,
                                          tick |-> 1 - llm.sel.tick]]
    /\ UNCHANGED <<rag, store, redis, phase, adm, ask, writes, slept, cache_call, clear, chunker>>

\* llm_service.register_provider(provider) with a new provider object named
\* "custom", or named as one of the default providers
LlmRegisterProvider ==
    /\ \E name \in RegistrableNames :
         /\ llm.instance[name] < MaxRegistrations
         /\ llm' = Register(llm, name)
    /\ UNCHANGED <<rag, store, redis, phase, adm, ask, writes, slept, cache_call, clear, chunker>>

\* is_configured() of a provider changes: its API key is set or removed
LlmConfigure ==
    /\ \E name \in DefaultProviders \cup {"custom"} :
         llm' = [llm EXCEPT !.configured =
                   IF name \in @ THEN @ \ {name} ELSE @ \cup {name}]
    /\ UNCHANGED <<rag, store, redis, phase, adm, ask, writes, slept, cache_call, clear, chunker>>

\* one attempt of a generate_answer call under the retry decorator: the
\* active provider is called; it returns reply or raises
LlmGenerate ==
    /\ llm.gen.pc \in {"idle", "retrying"}
    /\ \E bo \in LlmOutcomes, reply \in LlmReplies :
         LET n == llm.gen.calls + 1
             g == GenerateAttempt(n, bo, reply)
             c == [llm.gen EXCEPT !.calls = n, !.outcomes = Append(@, bo)]
         IN  llm' = [llm EXCEPT !.gen =
                       CASE g.kind = "return" ->
                              [c EXCEPT !.pc = "returned", !.reply = reply,
                                        !.answer = g.answer, !.tokens = g.tokens]
                         [] g.kind = "retry" -> [c EXCEPT !.pc = "retrying"]
                         [] OTHER -> [c EXCEPT !.pc = "returned", !.raised = g.raised]]
    /\ UNCHANGED <<rag, store, redis, phase, adm, ask, writes, slept, cache_call, clear, chunker>>

\* the caller has the answer or the error
LlmGenerateReturn ==
    /\ llm.gen.pc = "returned"
    /\ llm' = [llm EXCEPT !.gen = GenIdle]
    /\ UNCHANGED <<rag, store, redis, phase, adm, ask, writes, slept, cache_call, clear, chunker>>

\* ------------------------------------------------ the chunker, called directly
\* lines 141-146: _chunk_text(text, chunk_size, overlap) up to the loop
ChunkBegin ==
    /\ chunker.pc = "idle"
    /\ \E text \in Texts, chunk_size \in 2..MaxChunkSize :
         \E overlap \in 1..(chunk_size - 1) :
            chunker' = [ChunkerIdle EXCEPT !.pc = "loop", !.raw = text,
                                           !.text = Strip(text),
                                           !.chunk_size = chunk_size,
                                           !.overlap = overlap]
    /\ UNCHANGED <<rag, store, redis, phase, adm, ask, writes, slept, cache_call, clear, llm>>

\* lines 148-162: one iteration of the while loop (the first MaxChunkIter
\* iterations are followed)
ChunkStep ==
    /\ chunker.pc = "loop"
    /\ chunker.start < Len(chunker.text)
    /\ Len(chunker.windows) < MaxChunkIter
    /\ LET w == ChunkWindow(chunker.text, chunker.chunk_size, chunker.start)
       IN  chunker' = [chunker EXCEPT
                         !.chunks = Append(@, Strip(w.chunk)),
                         !.windows = Append(@, [start |-> chunker.start, end |-> w.end,
                                                cut |-> w.cut]),
                         !.start = NextStart(w.end, chunker.overlap)]
    /\ UNCHANGED <<rag, store, redis, phase, adm, ask, writes, slept, cache_call, clear, llm>>

\* lines 148, 164: the loop condition fails and the chunks are returned
ChunkFinish ==
    /\ chunker.pc = "loop"
    /\ ~(chunker.start < Len(chunker.text))
    /\ chunker' = [chunker EXCEPT !.pc = "returned", !.result = FilterChunks(chunker.chunks)]
    /\ UNCHANGED <<rag, store, redis, phase, adm, ask, writes, slept, cache_call, clear, llm>>

\* the caller has the chunks
ChunkReturn ==
    /\ chunker.pc = "returned"
    /\ chunker' = ChunkerIdle
    /\ UNCHANGED <<rag, store, redis, phase, adm, ask, writes, slept, cache_call, clear, llm>>

\* a key of another user of the Redis instance, and its payload
OtherKey == <<"session:", <<"s">>>>
OtherPayload == <<"json", [user |-> "u"]>>

\* Redis is shared: another application writes its own key
OtherWrite ==
    /\ OtherKey \notin DOMAIN redis
    /\ redis' = [k \in DOMAIN redis \cup {OtherKey} |->
                   IF k = OtherKey THEN OtherPayload ELSE redis[k]]
    /\ UNCHANGED <<rag, store, phase, adm, ask, writes, slept, cache_call, clear, llm, chunker>>

\* clear_cache up to "await self._client.delete(*keys)": keys("faq:*") is
\* awaited; an error, or no key, and 0 is returned
ClearKeys ==
    /\ clear.pc = "idle"
    /\ \E bo \in RedisOutcomes :
         LET keys == KeysMatching(redis)
         IN  clear' = IF bo # "ok" \/ keys = {}
                      THEN [pc |-> "returned", keys |-> {}, backend |-> bo,
                            raised |-> None, value |-> 0]
                      ELSE [pc |-> "listed", keys |-> keys, backend |-> bo,
                            raised |-> None, value |-> 0]
    /\ UNCHANGED <<rag, store, redis, phase, adm, ask, writes, slept, cache_call, llm, chunker>>

\* clear_cache from the delete on: the number of deleted keys is returned, or
\* 0 when the delete raises
ClearDelete ==
    /\ clear.pc = "listed"
    /\ \E bo \in RedisOutcomes :
         LET d == RedisDelete(redis, clear.keys)
         IN  /\ redis' = IF bo = "ok" THEN d.kv ELSE redis
             /\ clear' = [clear EXCEPT !.pc = "returned", !.backend = bo,
                                       !.value = IF bo = "ok" THEN d.deleted ELSE 0]
    /\ UNCHANGED <<rag, store, phase, adm, ask, writes, slept, cache_call, llm, chunker>>

\* the caller has the count; the next clear_cache can be called
ClearReturn ==
    /\ clear.pc = "returned"
    /\ clear' = ClearIdle
    /\ UNCHANGED <<rag, store, redis, phase, adm, ask, writes, slept, cache_call, llm, chunker>>

\* the /ask route, after the service has started
NextAsk ==
    \/ Lifespan
    \/ LoadDocuments
    \/ \E r \in Reqs : AskCacheLookup(r)
    \/ \E r \in Reqs : AskSearch(r)
    \/ \E r \in Reqs : AskSearchWake(r)
    \/ \E r \in Reqs : AskGetContext(r)
    \/ \E r \in Reqs : AskGetContextWake(r)
    \/ \E r \in Reqs : AskGenerate(r)
    \/ \E r \in Reqs : AskCacheSet(r)
    \/ \E r \in Reqs : AskHistory(r)
    \/ \E r \in Reqs : AskRollback(r)
    \/ \E r \in Reqs : AskRespond(r)

\* the /ask route on a cache that other writers damage
NextAskForeign ==
    \/ NextAsk
    \/ CacheForeignWrite

\* the document, stats and health routes, after the service has started
NextStore ==
    \/ Lifespan
    \/ LoadDocuments
    \/ \E a \in Adms : UploadDocument(a)
    \/ \E a \in Adms : GetStats(a)
    \/ \E a \in Adms : AdmWake(a)
    \/ \E a \in Adms : HealthCheck(a)
    \/ \E a \in Adms : AdmReturn(a)

\* the operations of the retrieval store next to each other, on the document
\* of the documents directory: what they do to the connection state
NextConn ==
    \/ Lifespan
    \/ LoadDocuments
    \/ \E a \in Adms : ReingestDocument(a)
    \/ \E a \in Adms : GetStats(a)
    \/ \E a \in Adms : SearchDocuments(a)
    \/ \E a \in Adms : AdmWake(a)
    \/ \E a \in Adms : HealthCheck(a)
    \/ \E a \in Adms : AdmReturn(a)
    \/ ResetCounter

\* the cache service under direct calls
NextCache ==
    \/ CacheGet
    \/ CacheSet
    \/ CacheDamage

\* clear_cache next to the writers of the keyspace
NextClear ==
    \/ CacheSet
    \/ OtherWrite
    \/ ClearKeys
    \/ ClearDelete
    \/ ClearReturn

\* the LLM service under direct calls
NextLlm ==
    \/ LlmSetProvider
    \/ LlmRegisterProvider
    \/ LlmConfigure
    \/ LlmGenerate
    \/ LlmGenerateReturn

\* the chunker under direct calls
NextChunk ==
    \/ ChunkBegin
    \/ ChunkStep
    \/ ChunkFinish
    \/ ChunkReturn

Next == NextAsk \/ NextAskForeign \/ NextStore \/ NextConn \/ NextCache \/ NextClear \/ NextLlm \/ NextChunk

\* the whole service
Spec == Init /\ [][Next]_vars

\* the service under /ask traffic only (the two kinds of traffic meet in rag
\* and store only; their product is beyond enumeration)
SpecAsk == Init /\ [][NextAsk]_vars

\* the service under document, stats and health traffic only
SpecStore == Init /\ [][NextStore]_vars

\* the service under the traffic that uses the connection of the store
SpecConn == Init /\ [][NextConn]_vars

\* the cache service and the Redis keyspace
SpecCache == Init /\ [][NextCache]_vars

\* clear_cache and the Redis keyspace
SpecClear == Init /\ [][NextClear]_vars

\* /ask with payloads in the cache that are no packages
SpecAskForeign == Init /\ [][NextAskForeign]_vars

\* the LLM service: provider selection and generation
SpecLlm == Init /\ [][NextLlm]_vars

\* _chunk_text on every short text, chunk size and overlap
SpecChunk == Init /\ [][NextChunk]_vars

\* ================================================================== claims
\* the request slots that have ended
Done(r) == ask[r].pc = "done"

\* the fields of a package other than the timing and the cached flag
SamePackage(response, data) ==
    /\ response.answer = data.answer
    /\ response.sources = data.sources
    /\ response.tokens_used = data.tokens_used

\* C1: when the cache lookup of an ask finds a stored package, the ask ends
\* right there with that package marked cached = true, and neither the
\* retrieval search nor the generation has been invoked for it
C1_CacheHitShortCircuits ==
    \A r \in Reqs :
        IsPackage(ask[r].found) =>
            /\ Done(r)
            /\ ask[r].outcome = "response"
            /\ ask[r].response.cached = TRUE
            /\ SamePackage(ask[r].response, ask[r].found)
            /\ ask[r].trace = <<"cache_lookup">>

C1_Witness ==
    \E r \in Reqs :
        /\ Done(r)
        /\ IsPackage(ask[r].found)
        /\ ask[r].response.cached = TRUE
        /\ ask[r].response.sources # <<>>

\* the step in which request r makes its cache lookup
LookupStep(r) == ask[r].pc = "idle" /\ ask'[r].pc # "idle"

\* C2 (as amended): when exactly one ask has so far written the cache entry of
\* a normalized question (it missed, generated, and its write succeeded), an
\* ask for a question with the same normalization whose own cache read
\* succeeds ends at the lookup with cached = true and the answer, sources and
\* tokens of that first ask, without retrieval or generation of its own
C2_RepeatServedFromCache ==
    [][\A r \in Reqs :
         (/\ LookupStep(r)
          /\ writes[NormQ(ask'[r].raw)].n = 1
          /\ ask'[r].lookup_ok)
         => (/\ ask'[r].pc = "done"
             /\ ask'[r].outcome = "response"
             /\ ask'[r].response.cached = TRUE
             /\ SamePackage(ask'[r].response, writes[NormQ(ask'[r].raw)].first)
             /\ ask'[r].trace = <<"cache_lookup">>)]_vars

\* a repeat with another spelling of the question is served from the cache
C2_Witness ==
    \E r \in Reqs :
        /\ Done(r)
        /\ ask[r].expect_hit
        /\ ask[r].lookup_ok
        /\ ask[r].response # Nil
        /\ ask[r].response.cached = TRUE
        /\ writes[NormQ(ask[r].raw)].n = 1
        /\ writes[NormQ(ask[r].raw)].by # ask[r].raw
        /\ SamePackage(ask[r].response, writes[NormQ(ask[r].raw)].first)

\* C2 as stated: once an ask has missed, generated and written the cache,
\* every later ask for a question with the same normalization returns
\* cached = true with the answer, sources and tokens of that first ask and
\* invokes no generation
C2_AsStated ==
    \A r \in Reqs :
        (Done(r) /\ ask[r].expect_hit) =>
            /\ ask[r].outcome = "response"
            /\ ask[r].response.cached = TRUE
            /\ SamePackage(ask[r].response, writes[NormQ(ask[r].raw)].first)
            /\ ask[r].trace = <<"cache_lookup">>

\* whether stage occurs in the trace of request r
InTrace(r, stage) == \E i \in 1..Len(ask[r].trace) : ask[r].trace[i] = stage

\* generate_answer has returned an answer to request r: the stages after it run
GenerationSucceeded(r) == InTrace(r, "cache_set")

\* a complete package: every field set
CompletePackage(p) ==
    /\ p # Nil
    /\ DOMAIN p = {"answer", "sources", "tokens_used", "response_time_ms", "cached"}
    /\ p.answer # None
    /\ p.cached \in BOOLEAN

\* the step in which generate_answer returns an answer to request r
GenerateReturns(r) == ask[r].pc = "generate" /\ ask'[r].pc = "cache_set"

\* the step in which request r ends after its generation has succeeded
EndsAfterGeneration(r) ==
    ask[r].pc \in {"cache_set", "history", "rollback"} /\ ask'[r].pc = "done"

\* whether the text s has the element x
HasText(s, x) == \E i \in 1..Len(s) : s[i] = x

\* the package is assembled with cached = false whatever retrieval and cache
\* did; without rows from the store its sources are empty and the prompt of the
\* generator carries the no-context marker
AssembledDegraded(r) ==
    GenerateReturns(r) =>
        /\ CompletePackage(ask'[r].response)
        /\ ask'[r].response.cached = FALSE
        /\ ask[r].search_err # None => ask'[r].response.sources = <<>>
        /\ ask[r].context_err # None =>
              /\ ask[r].context = <<>>
              /\ HasText(ask'[r].prompt, NoContextMarker)

\* C3 as stated: whatever the retrieval store and the cache do, when
\* generation succeeds the ask returns a package with cached = false; when
\* retrieval got nothing from the store the package has empty sources and the
\* generator is invoked with the no-context marker in the prompt
C3_AsStated ==
    [][\A r \in Reqs :
         /\ AssembledDegraded(r)
         /\ EndsAfterGeneration(r) =>
               /\ ask'[r].outcome = "response"
               /\ ask'[r].response = ask[r].response
               /\ ask'[r].response.cached = FALSE]_vars

\* C3, the part before the writes: the package assembled when generation
\* succeeds is complete, has cached = false and is degraded as stated
C3_Assembled == [][\A r \in Reqs : AssembledDegraded(r)]_vars

\* C4: when the generator has failed its last attempt, the ask ends with the
\* internal error (status 500 with the generic detail, nothing of the
\* backend's error in it) and no package; fewer failures do not end it
C4_GenerationFailureIsInternalError ==
    [][\A r \in Reqs :
         (ask[r].pc = "generate" /\ ask'[r].pc \notin {"generate", "cache_set"}) =>
            /\ ask[r].attempts + 1 = MaxGenAttempts
            /\ ask'[r].pc = "done"
            /\ ask'[r].outcome = "http_error"
            /\ ask'[r].error = [status |-> 500, detail |-> GenericDetail]
            /\ ask'[r].response = Nil]_vars

C4_Witness ==
    \E r \in Reqs :
        /\ Done(r)
        /\ ask[r].outcome = "http_error"
        /\ InTrace(r, "generate")
        /\ ask[r].response = Nil

\* C5 as stated: after generation has succeeded, whatever the cache write and
\* the log write (commit, then rollback) do, the ask returns the assembled
\* package with cached = false
C5_AsStated ==
    \A r \in Reqs :
        (Done(r) /\ GenerationSucceeded(r)) =>
            /\ ask[r].outcome = "response"
            /\ CompletePackage(ask[r].response)
            /\ ask[r].response.cached = FALSE

\* C5, the part that holds: a failing cache write or a failing commit whose
\* rollback succeeds leaves the assembled package as the outcome
C5_WritesBeforeRollback ==
    [][\A r \in Reqs :
         (ask[r].pc \in {"cache_set", "history"} /\ ask'[r].pc # ask[r].pc) =>
            /\ ask'[r].response = ask[r].response
            /\ ask'[r].pc \in {"history", "rollback", "done"}
            /\ ask'[r].pc = "done" => ask'[r].outcome = "response"]_vars

\* C6 as stated (its safety part): an ask that has ended has one of two
\* outcomes, a complete package or the internal error, never anything else
C6_AsStated ==
    \A r \in Reqs :
        Done(r) =>
            \/ /\ ask[r].outcome = "response"
               /\ CompletePackage(ask[r].response)
               /\ ask[r].error = Nil
            \/ /\ ask[r].outcome = "http_error"
               /\ ask[r].error = [status |-> 500, detail |-> GenericDetail]
               /\ ask[r].response = Nil

\* the stages of an ask in their order
StageRank(stage) ==
    CASE stage = "cache_lookup" -> 1
      [] stage = "search" -> 2
      [] stage = "context" -> 3
      [] stage = "generate" -> 4
      [] stage = "cache_set" -> 5
      [] stage = "history" -> 6

\* the stages occur in order, each at most once, and the two writes only
\* after a successful generation of a request that missed the cache
StagesInOrder(r) ==
    LET t == ask[r].trace
    IN  /\ \A i \in 1..Len(t) - 1 : StageRank(t[i]) < StageRank(t[i + 1])
        /\ (InTrace(r, "cache_set") \/ InTrace(r, "history")) =>
              /\ InTrace(r, "generate")
              /\ ask[r].answer # None \/ Done(r)
              /\ ~IsPackage(ask[r].found)
        /\ ask[r].set_ok => InTrace(r, "cache_set")

\* C7 as stated: the stages occur in order, the writes at most once and only
\* after a successful generation, and a request that fails has left the cache
\* unchanged
C7_AsStated ==
    \A r \in Reqs :
        /\ StagesInOrder(r)
        /\ (Done(r) /\ ask[r].outcome # "response") => ~ask[r].set_ok

\* C7, the part that holds: the order of the stages and the writes
C7_Stages == \A r \in Reqs : StagesInOrder(r)

\* the step in which the call of search that request r makes at pc returns
SearchReturns(r, pc) ==
    /\ ask[r].pc \in {pc, pc \o "_sleep"}
    /\ ask'[r].pc \notin {pc, pc \o "_sleep"}

\* the sources the route builds from the rows of its search
SourcesOf(results) == [i \in 1..Len(results) |-> SourceInfo(results[i])]

\* what a call of search that got nothing from the store leaves behind: the
\* store is marked unavailable, and an error raised by the query is recorded
DegradedStore(why) ==
    why # None =>
        /\ ~rag'.available
        /\ why \in Errors => rag'.last_error = why

\* C8: search does not raise (the route goes on to get_context with its
\* rows); without a connection, or when the query raises, the rows are empty,
\* the store is marked unavailable and the error of the query is recorded;
\* get_context does not raise either (the route builds its sources from the
\* rows of search) and returns the empty text when its search got nothing
C8_SearchNeverRaises ==
    [][\A r \in Reqs :
         /\ SearchReturns(r, "search") =>
               /\ ask'[r].pc = "context"
               /\ ask'[r].search_err # None => ask'[r].results = <<>>
               /\ DegradedStore(ask'[r].search_err)
         /\ SearchReturns(r, "context") =>
               /\ ask'[r].pc = "generate"
               /\ ask'[r].sources = SourcesOf(ask[r].results)
               /\ ask'[r].context_err # None => ask'[r].context = <<>>
               /\ DegradedStore(ask'[r].context_err)]_vars

\* the query of search raised while the store held chunks, and get_context
\* found no connection
C8_Witness ==
    \E r \in Reqs :
        /\ ask[r].pc = "generate"
        /\ store # {}
        /\ ask[r].search_err \in Errors
        /\ ask[r].context_err = Unavailable
        /\ ask[r].context = <<>>
        /\ ~rag.available

\* the step in which the add_document called by coroutine a returns or raises
AddReturns(a) ==
    /\ adm[a].pc \in {"idle", "sleeping"}
    /\ adm'[a].pc = "returned"
    /\ adm'[a].result.op = "add"

\* the connection was missing and was not restored: the attempt budget was
\* used up when add_document was called, or the connect after the sleep failed
NotReconnected(a) ==
    \/ adm[a].pc = "idle" /\ NeedsConnection(rag)
                          /\ rag.reconnect_attempts >= MAX_RECONNECT_ATTEMPTS
    \/ adm[a].pc = "sleeping" /\ ~rag'.client

\* C9: add_document raises the store-unavailable error when the connection is
\* missing and not restored; an error of the backend during its calls marks
\* the store unavailable, is recorded as last_error and is raised as the
\* store-unavailable error; the upload route then answers 500, never a count
C9_AddDocumentRaises ==
    [][\A a \in Adms :
         AddReturns(a) =>
            LET res == adm'[a].result
            IN  /\ NotReconnected(a) => res.raised = UnavailableError
                /\ res.backend_error # None =>
                      /\ res.raised = UnavailableError
                      /\ ~rag'.available
                      /\ rag'.last_error = res.backend_error
                /\ res.raised # None =>
                      /\ res.response.status = 500
                      /\ "chunks_created" \notin DOMAIN res.response
                /\ res.raised = None => res.response.status = 200]_vars

\* an upload whose reconnect failed, and an upload whose insert raised after
\* the earlier chunks of the document were deleted
C9_Witness ==
    \E a, b \in Adms :
        /\ adm[a].pc = "returned" /\ adm[a].result.op = "add"
        /\ adm[a].result.raised = UnavailableError
        /\ adm[a].result.backend_error = None
        /\ adm[b].pc = "returned" /\ adm[b].result.op = "add"
        /\ adm[b].result.backend_error \in Errors
        /\ adm[b].result.response.status = 500

\* the chunks the store holds for the document name
ChunksOf(st, name) == {c \in st : c.source = name}

\* C10 as stated: when add_document(name, content) returns n, the store holds
\* exactly the n chunks of content for name, indexed 0..n-1 in order, and
\* nothing of an earlier ingestion of name, also when content has no chunk
C10_AsStated ==
    [][\A a \in Adms :
         (AddReturns(a) /\ adm'[a].result.raised = None) =>
            LET res    == adm'[a].result
                chunks == ChunkText(res.content, ChunkSize, ChunkOverlap)
            IN  /\ res.value = Len(chunks)
                /\ ChunksOf(store', res.name) =
                     {ChunkRecord(res.name, i - 1, chunks[i]) : i \in 1..Len(chunks)}]_vars

\* C10, the part that holds: the same for every content that has a chunk
C10_NonEmptyContent ==
    [][\A a \in Adms :
         (AddReturns(a) /\ adm'[a].result.raised = None /\ adm'[a].result.value > 0) =>
            LET res    == adm'[a].result
                chunks == ChunkText(res.content, ChunkSize, ChunkOverlap)
            IN  /\ res.value = Len(chunks)
                /\ ChunksOf(store', res.name) =
                     {ChunkRecord(res.name, i - 1, chunks[i]) : i \in 1..Len(chunks)}]_vars

\* C11 as stated: when add_document(name, ...) fails, the store holds for name
\* exactly the chunks it held before the call: never the state in which the
\* earlier chunks are deleted and the new ones are not inserted
C11_AsStated ==
    [][\A a \in Adms :
         (AddReturns(a) /\ adm'[a].result.raised # None) =>
            ChunksOf(store', adm'[a].result.name) = ChunksOf(store, adm'[a].result.name)]_vars

\* the step in which coroutine a calls search, add_document or
\* get_collection_stats (the health check is not such a call)
CallBegins(a) ==
    /\ adm[a].pc = "idle"
    /\ adm'[a].pc # "idle"
    /\ ~(adm'[a].pc = "returned" /\ adm'[a].result.op = "check")

\* the store is unavailable and the attempt budget is used up
Exhausted(r) == NeedsConnection(r) /\ r.reconnect_attempts >= MAX_RECONNECT_ATTEMPTS

\* what a call gives back when it could not get the connection
FailedFastResult(res) ==
    CASE res.op = "search" -> res.raised = None /\ res.value = <<>>
      [] res.op = "add" -> res.raised = UnavailableError
      [] OTHER -> /\ res.raised = None
                  /\ ~res.value.available
                  /\ res.value.document_count = 0

\* C12: once the attempt count has reached MAX_RECONNECT_ATTEMPTS, a search,
\* add_document or stats called while the store is unavailable returns in the
\* same step, without a connect attempt and without a backoff sleep: search
\* gives no result, add_document raises the store-unavailable error, stats
\* reports unavailable; the connection state, the attempt count and the store
\* are left as they were
C12_FailFastWhenExhausted ==
    [][\A a \in Adms :
         (CallBegins(a) /\ Exhausted(rag)) =>
            /\ adm'[a].pc = "returned"
            /\ adm'[a].gave_up = "fail_fast"
            /\ FailedFastResult(adm'[a].result)
            /\ rag' = rag
            /\ slept' = slept
            /\ store' = store]_vars

\* with the budget used up and the store unavailable, a search that failed
\* fast on a store that holds chunks and an add_document that failed fast
C12_Witness ==
    \E a, b \in Adms :
        /\ Exhausted(rag)
        /\ store # {}
        /\ adm[a].pc = "returned" /\ adm[a].gave_up = "fail_fast"
        /\ adm[a].result.op = "search" /\ adm[a].result.value = <<>>
        /\ adm[b].pc = "returned" /\ adm[b].gave_up = "fail_fast"
        /\ adm[b].result.op = "add" /\ adm[b].result.raised = UnavailableError

\* the coroutines that are inside a reconnect attempt: the backoff sleep has
\* begun and the connect that follows it has not returned
Reconnecting == {a \in Adms : adm[a].pc = "sleeping"}

\* C13 as stated: at most one reconnect attempt (backoff sleep, then connect)
\* is in flight for the store at any time
C13_AsStated == Cardinality(Reconnecting) <= 1

\* the step holds a verified successful connection: a connect or a heartbeat
\* succeeded in it (the operation that follows the connect in the same step
\* may fail again); slept goes back to zero in such a step only
VerifiedConnection == rag'.available \/ (slept > 0 /\ slept' = 0)

\* C14 as stated: the attempt count never decreases while the store stays
\* unavailable, and it goes back to zero only in a step with a verified
\* successful connection (a connect or a health check that succeeded)
C14_AsStated ==
    [][/\ (~rag.available /\ ~rag'.available /\ ~VerifiedConnection) =>
             rag'.reconnect_attempts >= rag.reconnect_attempts
       /\ (rag.reconnect_attempts > 0 /\ rag'.reconnect_attempts = 0) =>
             VerifiedConnection]_vars

\* a step of reset_reconnect_counter
ResetStep == adm' = adm /\ phase' = phase /\ rag' = ResetReconnectCounter(rag)

\* C14, the part that holds: the same of every step but reset_reconnect_counter
C14_OtherOperations ==
    [][~ResetStep =>
         /\ (~rag.available /\ ~rag'.available /\ ~VerifiedConnection) =>
               rag'.reconnect_attempts >= rag.reconnect_attempts
         /\ (rag.reconnect_attempts > 0 /\ rag'.reconnect_attempts = 0) =>
               VerifiedConnection]_vars

\* the step in which coroutine a begins a reconnect try: it counts the attempt
\* and starts the backoff sleep
TryBegins(a) == adm[a].pc = "idle" /\ adm'[a].pc = "sleeping"

\* C15, each try: it sleeps RECONNECT_BASE_DELAY * 2^k, k the attempt count
\* before the try, and adds exactly one to the attempt count
C15_EachTry ==
    [][\A a \in Adms :
         TryBegins(a) =>
            /\ slept' = AddSleep(slept, RECONNECT_BASE_DELAY * (2 ^ rag.reconnect_attempts))
            /\ rag.reconnect_attempts < MAX_RECONNECT_ATTEMPTS
            /\ rag'.reconnect_attempts = rag.reconnect_attempts + 1]_vars

\* C15 as stated: each try sleeps RECONNECT_BASE_DELAY * 2^k and counts one
\* attempt, so the backoff sleep of one failure episode (since the last
\* successful connect) is at most 7 * RECONNECT_BASE_DELAY
C15_AsStated ==
    [][/\ \A a \in Adms :
            TryBegins(a) =>
               /\ slept' = AddSleep(slept, RECONNECT_BASE_DELAY * (2 ^ rag.reconnect_attempts))
               /\ rag'.reconnect_attempts = rag.reconnect_attempts + 1
       /\ slept' <= 7 * RECONNECT_BASE_DELAY]_vars

\* the clean connection state
Clean(r) == r.available /\ r.last_error = None /\ r.reconnect_attempts = 0

\* the step in which the health check of coroutine a returns
CheckReturns(a) ==
    /\ adm[a].pc = "idle"
    /\ adm'[a].pc = "returned"
    /\ adm'[a].result.op = "check"

\* C16 as stated: after a successful connection (the connect of the lifespan,
\* a reconnect try that succeeded, a health check that succeeded) the store
\* is available, last_error is absent and the attempt count is zero
C16_AsStated ==
    [][/\ (~rag.available /\ rag'.available) => Clean(rag')
       /\ \A a \in Adms :
            (CheckReturns(a) /\ adm'[a].result.value = TRUE) => Clean(rag')]_vars

\* C16, the part that holds: the same of connect and of the reconnect try
C16_ConnectIsClean ==
    [][(~rag.available /\ rag'.available /\ \A a \in Adms : ~CheckReturns(a)) =>
          Clean(rag')]_vars

\* the step in which the operation of coroutine a returns or raises
OperationReturns(a) == adm[a].pc # "returned" /\ adm'[a].pc = "returned"

\* C17: when a backend call of search, add_document, stats or the health
\* check raised, the operation leaves the store marked unavailable with
\* last_error set to that error
C17_BackendErrorDisconnects ==
    [][\A a \in Adms :
         (OperationReturns(a) /\ adm'[a].result.backend_error # None) =>
            /\ ~rag'.available
            /\ rag'.last_error = adm'[a].result.backend_error]_vars

\* a stats call whose count raised and a search whose query raised; the store
\* is unavailable with the error of the later of the two
C17_Witness ==
    \E a, b \in Adms :
        /\ adm[a].pc = "returned" /\ adm[a].result.op = "stats"
        /\ adm[a].result.backend_error \in Errors
        /\ adm[b].pc = "returned" /\ adm[b].result.op = "search"
        /\ adm[b].result.backend_error \in Errors
        /\ adm[b].result.backend_error # adm[a].result.backend_error
        /\ ~rag.available
        /\ rag.last_error = adm[b].result.backend_error

\* a direct call of the cache service has been made
Called == "op" \in DOMAIN cache_call

\* C18: get_cached_answer and set_cached_answer never raise: get gives None
\* when the Redis read raises and when the entry holds a payload that does
\* not parse (not JSON, cut off, empty); set gives False when the Redis write
\* raises and when the value cannot be serialized
C18_CacheNeverRaises ==
    Called =>
       /\ cache_call.raised = None
       /\ cache_call.op = "get" =>
             /\ cache_call.backend # "ok" => cache_call.value = Nil
             /\ (cache_call.present /\ cache_call.payload \in DamagedPayloads) =>
                   cache_call.value = Nil
       /\ cache_call.op = "set" =>
             /\ cache_call.stored \in BOOLEAN
             /\ cache_call.backend # "ok" => cache_call.stored = FALSE
             /\ ~JsonSerializable(cache_call.answer) => cache_call.stored = FALSE

\* a get that read a payload cut off under the key of its question: a set
\* had stored a package there before
C18_Witness ==
    /\ Called
    /\ cache_call.op = "get"
    /\ cache_call.backend = "ok"
    /\ cache_call.present
    /\ cache_call.payload = <<"json">>
    /\ cache_call.value = Nil
    /\ writes[NormQ(cache_call.question)].n > 0

\* the step of a direct get_cached_answer: it leaves the keyspace alone
GetStep ==
    /\ "op" \in DOMAIN cache_call'
    /\ cache_call'.op = "get"
    /\ redis' = redis
    /\ writes' = writes

\* the last direct call was a set that stored its package
StoredBySet == Called /\ cache_call.op = "set" /\ cache_call.stored

\* C19: the cache key is a function of the normalized question: a get for a
\* question with the normalization of the question of the set before it uses
\* the key of that set, and reads the package the set stored there
C19_SameNormalizationSameKey ==
    [][(GetStep /\ StoredBySet
          /\ NormQ(cache_call'.question) = NormQ(cache_call.question)) =>
          /\ cache_call'.key = cache_call.key
          /\ (cache_call'.backend = "ok" /\ redis[cache_call.key] = JsonDumps(cache_call.answer)) =>
                cache_call'.value = cache_call.answer]_vars

\* a get for " a" that returned the package a set for "A" had stored
C19_Witness ==
    /\ Called
    /\ cache_call.op = "get"
    /\ cache_call.question = <<" ", "a">>
    /\ IsPackage(cache_call.value)
    /\ writes[<<"a">>].n = 1
    /\ writes[<<"a">>].by = <<"A">>
    /\ cache_call.value = writes[<<"a">>].first

HasPrefix(k) == k[1] = "faq:"

\* the step in which clear_cache returns
ClearReturns == clear.pc # "returned" /\ clear'.pc = "returned"

\* C21: clear_cache is given exactly the keys that carry the prefix "faq:";
\* it removes them and nothing else, and returns the number of keys it
\* removed; it returns 0, removes nothing and raises nothing when there is no
\* such key or a Redis command raises
C21_ClearRemovesPrefixKeys ==
    [][/\ (clear.pc = "idle" /\ clear'.pc = "listed") =>
             clear'.keys = {k \in DOMAIN redis : HasPrefix(k)}
       /\ ClearReturns =>
             /\ clear'.raised = None
             /\ \A k \in DOMAIN redis :
                   ~HasPrefix(k) => k \in DOMAIN redis' /\ redis'[k] = redis[k]
             /\ clear'.value = Cardinality(DOMAIN redis \ DOMAIN redis')
             /\ DOMAIN redis' \subseteq DOMAIN redis
             /\ clear'.backend # "ok" => clear'.value = 0 /\ redis' = redis
             /\ (clear.pc = "idle" /\ clear'.backend = "ok") =>
                   /\ \A k \in DOMAIN redis : ~HasPrefix(k)
                   /\ clear'.value = 0 /\ redis' = redis
             /\ (clear.pc = "listed" /\ clear'.backend = "ok") =>
                   DOMAIN redis' = DOMAIN redis \ clear.keys]_vars

\* a clear_cache that removed the two entries of the cache and left the key
\* of the other application
C21_Witness ==
    /\ clear.pc = "returned"
    /\ clear.value = 2
    /\ DOMAIN redis = {OtherKey}
    /\ redis[OtherKey] = OtherPayload

\* the step of a set_provider call
SetProviderStep == llm'.sel.tick # llm.sel.tick

\* C22: set_provider(name) raises the configuration error when no provider of
\* that name is registered or when the provider is not configured, and the
\* active provider then stays as it was; otherwise it raises nothing and the
\* active provider is the provider of that name
C22_SetProvider ==
    [][SetProviderStep =>
         LET name == llm'.sel.name
             bad  == name \notin llm.registered \/ name \notin llm.configured
         IN  /\ bad => llm'.sel.raised \in {UnknownProvider, NotConfigured}
                       /\ llm'.current = llm.current
             /\ name \notin llm.registered => llm'.sel.raised = UnknownProvider
             /\ ~bad => llm'.sel.raised = None /\ llm'.current = name
             /\ llm'.registered = llm.registered
             /\ llm'.configured = llm.configured]_vars

\* a set_provider for a registered provider that is not configured has
\* raised, and the provider selected before it is still the active one
C22_Witness ==
    /\ llm.sel.name = "custom"
    /\ llm.sel.raised = NotConfigured
    /\ "custom" \in llm.registered
    /\ llm.current = "openai"

\* C23: generate_answer calls the provider at most MaxGenAttempts (3) times:
\* it returns the reply of the first call that succeeds, it raises after
\* exactly three failed calls, and a returned answer is the reply of the
\* provider
C23_AtMostThreeCalls ==
    LET g == llm.gen
        failed(i) == g.outcomes[i] # "ok"
    IN  /\ g.calls <= 3
        /\ Len(g.outcomes) = g.calls
        /\ g.pc = "retrying" => g.calls < 3 /\ \A i \in 1..g.calls : failed(i)
        /\ (g.pc = "returned" /\ g.raised = None) =>
              /\ g.calls \in 1..3
              /\ ~failed(g.calls)
              /\ \A i \in 1..(g.calls - 1) : failed(i)
              /\ g.answer = g.reply.text
              /\ g.tokens = g.reply.tokens
        /\ (g.pc = "returned" /\ g.raised # None) =>
              /\ g.calls = 3
              /\ \A i \in 1..3 : failed(i)
              /\ g.answer = None

\* the provider failed twice and then succeeded: the answer after three calls
C23_Witness ==
    /\ llm.gen.pc = "returned"
    /\ llm.gen.outcomes = <<"llm_error", "llm_error", "ok">>
    /\ llm.gen.answer = "ans1"

\* a _chunk_text call has returned
ChunkReturned == chunker.pc = "returned"

\* text holds a character that is not whitespace
NonBlank(text) == \E i \in 1..Len(text) : text[i] \notin Whitespace

\* C24: a text shorter than chunk_size (0 < overlap < chunk_size) gives
\* exactly one chunk, equal to the trimmed text
C24_AsStated ==
    (ChunkReturned /\ NonBlank(chunker.raw) /\ Len(chunker.raw) < chunker.chunk_size)
        => chunker.result = <<Strip(chunker.raw)>>

\* what holds of C24: one chunk, the trimmed text, when the trimmed text is
\* no longer than chunk_size - overlap
C24_WithinFirstAdvance ==
    (ChunkReturned /\ NonBlank(chunker.raw)
       /\ Len(chunker.text) <= chunker.chunk_size - chunker.overlap)
        => chunker.result = <<Strip(chunker.raw)>>

\* one iteration of the chunking loop
LoopIteration ==
    /\ chunker.pc = "loop"
    /\ chunker'.pc = "loop"
    /\ Len(chunker'.windows) = Len(chunker.windows) + 1

\* the window of the iteration just made
ThisWindow == chunker'.windows[Len(chunker'.windows)]

\* C25: for chunk_size >= 2 and 1 <= overlap < chunk_size the start offset
\* strictly increases on every iteration of the loop (it never stalls or
\* moves backward), so that the loop terminates
C25_AsStated ==
    [][LoopIteration => chunker'.start > chunker.start]_vars

\* what holds of C25: the start offset strictly increases after a window
\* that was not cut
C25_AdvancesAfterFullWindow ==
    [][(LoopIteration /\ ~ThisWindow.cut) => chunker'.start > chunker.start]_vars

\* C26: after a window cut at a boundary the next window starts at
\* boundary + 1 (the end of the cut window) with no overlap; after a window
\* that was not cut, of full size, the next window starts at its end - overlap
C26_AsStated ==
    [][LoopIteration =>
         /\ ThisWindow.cut => chunker'.start = ThisWindow.end
         /\ ~ThisWindow.cut =>
               /\ ThisWindow.end = chunker.start + chunker.chunk_size
               /\ chunker'.start = ThisWindow.end - chunker.overlap]_vars

\* what holds of C26: the next window starts at the end of this one less the
\* overlap, after a cut window as after a full one
C26_OverlapAlways ==
    [][LoopIteration =>
         /\ chunker'.start = ThisWindow.end - chunker.overlap
         /\ ~ThisWindow.cut => ThisWindow.end = chunker.start + chunker.chunk_size]_vars

\* C27: an empty or whitespace-only text gives the empty sequence, and every
\* chunk returned for any text is non-empty and has no whitespace at either
\* end
C27_NoBlankChunks ==
    ChunkReturned =>
        /\ ~NonBlank(chunker.raw) => chunker.result = <<>>
        /\ \A i \in 1..Len(chunker.result) :
             LET c == chunker.result[i]
             IN  /\ c # <<>>
                 /\ c[1] \notin Whitespace
                 /\ c[Len(c)] \notin Whitespace

\* a call returned chunks after a window of whitespace only was dropped
C27_Witness ==
    /\ ChunkReturned
    /\ chunker.result # <<>>
    /\ \E i \in 1..Len(chunker.chunks) : chunker.chunks[i] = <<>>

\* no gap between consecutive windows
NoGap ==
    \A i \in 2..Len(chunker.windows) :
        chunker.windows[i].start <= chunker.windows[i - 1].end

\* the windows, and so the chunks, follow the text
InTextOrder ==
    \A i \in 2..Len(chunker.windows) :
        chunker.windows[i].start > chunker.windows[i - 1].start

\* every character of the trimmed text that is not whitespace lies in a window
Covered ==
    \A p \in 1..Len(chunker.text) :
        chunker.text[p] \notin Whitespace =>
            \E i \in 1..Len(chunker.windows) :
                chunker.windows[i].start < p /\ p <= chunker.windows[i].end

\* the chunks are the stripped windows that are not empty
ChunksAreWindows ==
    chunker.result =
        FilterChunks([i \in 1..Len(chunker.windows) |->
                        Strip(PySlice(chunker.text, chunker.windows[i].start,
                                      chunker.windows[i].end))])

\* C28: for a non-empty text and 1 <= overlap < chunk_size consecutive windows
\* leave no gap, the chunks appear in text order, and every character of the
\* trimmed text that is not whitespace occurs in a chunk
C28_AsStated ==
    /\ NoGap
    /\ InTextOrder
    /\ ChunkReturned => Covered /\ ChunksAreWindows

\* what holds of C28: no gap is left, and a call that returns has covered the
\* text in text order
C28_WhenItReturns ==
    /\ NoGap
    /\ ChunkReturned => InTextOrder /\ Covered /\ ChunksAreWindows

\* the rows of the backend and the results search makes of them agree entry
\* by entry, in order
SameOrder(results, rows) ==
    /\ Len(results) = Len(rows)
    /\ \A i \in 1..Len(rows) :
         results[i].source = rows[i].source /\ results[i].chunk = rows[i].doc

\* C29: the sources of a package are the results of search, one entry per
\* result in the order search returned them: in the response of the request
\* that searched, in the package it writes to the cache, and in the response
\* of a later hit on that package
C29_SourcesInSearchOrder ==
    [][\A r \in Reqs :
         /\ (SearchReturns(r, "search") /\ ask'[r].search_err = None) =>
               SameOrder(ask'[r].results, QueryRows(store, ask[r].question, TopK))
         /\ SearchReturns(r, "context") =>
               ask'[r].sources = SourcesOf(ask[r].results)
         /\ (ask[r].pc = "generate" /\ ask'[r].pc = "cache_set") =>
               /\ ask'[r].sources = ask[r].sources
               /\ ask'[r].response.sources = ask[r].sources
               /\ ~ask'[r].response.cached
         /\ (ask[r].pc = "cache_set" /\ ask'[r].set_ok) =>
               /\ JsonLoads(redis'[HashQuestion(ask[r].question)]).sources = ask[r].sources
               /\ writes'[NormQ(ask[r].raw)].last.sources = ask[r].sources
         /\ (ask[r].pc \in {"cache_set", "history", "rollback"} /\ ask'[r].response # Nil) =>
               ask'[r].response = ask[r].response
         /\ (ask[r].pc = "idle" /\ ask'[r].pc = "done" /\ ask'[r].response # Nil) =>
               /\ ask'[r].response.cached
               /\ ask'[r].response.sources = writes[NormQ(ask'[r].raw)].last.sources]_vars

\* a hit returned two sources of different chunks, as they were written
C29_Witness ==
    \E r \in Reqs :
        /\ ask[r].pc = "done"
        /\ ask[r].response # Nil
        /\ ask[r].response.cached
        /\ Len(ask[r].response.sources) >= 2
        /\ ask[r].response.sources[1] # ask[r].response.sources[2]

\* C30: the sources of a request are the chunks whose text is given to the
\* generator as context: the context is the text of the results the sources
\* are made of, and the sources are empty exactly when the context is
C30_AsStated ==
    \A r \in Reqs :
        ask[r].pc = "generate" =>
            /\ ask[r].sources = <<>> <=> ask[r].context = <<>>
            /\ ask[r].context = ContextParts(ask[r].results)

\* what holds of C30: sources and context are of the same results when both
\* searches of the request got their rows from the store
C30_WhenBothSearchesSucceed ==
    \A r \in Reqs :
        (ask[r].pc = "generate" /\ ask[r].search_err = None /\ ask[r].context_err = None) =>
            /\ ask[r].sources = SourcesOf(ask[r].results)
            /\ ask[r].context = ContextParts(ask[r].results)

\* C31: the attempt count is between 0 and MAX_RECONNECT_ATTEMPTS (3) in
\* every state, whatever the interleaving of search, add_document, stats,
\* health check and reset, and with several calls in a reconnect try at once
C31_AttemptCountInRange ==
    /\ rag.reconnect_attempts >= 0
    /\ rag.reconnect_attempts <= MAX_RECONNECT_ATTEMPTS

\* the budget is used up while two calls are in their backoff sleep
C31_Witness ==
    /\ rag.reconnect_attempts = MAX_RECONNECT_ATTEMPTS
    /\ \A a \in Adms : adm[a].pc = "sleeping"

\* the step in which a search called by coroutine a returns without a
\* reconnect sleep
SearchRunsAtOnce(a) ==
    /\ adm[a].pc = "idle"
    /\ adm'[a].pc = "returned"
    /\ adm'[a].result.op = "search"

\* C33: with the attempt budget used up, a health check that reaches the
\* backend returns true and leaves the store available with attempt count 0,
\* so that the next call finds the connection ready; a search on an
\* available store queries the backend and returns its rows
C33_HealthCheckRecovers ==
    [][\A a \in Adms :
         /\ (CheckReturns(a) /\ Exhausted(rag) /\ adm'[a].result.backend_error = None) =>
               /\ adm'[a].result.value = TRUE
               /\ rag'.available /\ rag'.client
               /\ rag'.reconnect_attempts = 0
               /\ EnsureConnectionBegin(rag').kind = "ready"
         /\ (SearchRunsAtOnce(a) /\ ~NeedsConnection(rag)
               /\ adm'[a].result.backend_error = None) =>
               /\ adm'[a].gave_up = None
               /\ adm'[a].result.raised = None
               /\ SameOrder(adm'[a].result.value,
                            QueryRows(store, adm'[a].result.query, TopK))]_vars

\* a search failed fast on the used-up budget, then a health check succeeded:
\* the store is available again and the attempt count is 0
C33_Witness ==
    \E a, b \in Adms :
        /\ adm[a].pc = "returned" /\ adm[a].gave_up = "fail_fast"
        /\ adm[a].result.op = "search"
        /\ adm[b].pc = "returned" /\ adm[b].result.op = "check"
        /\ adm[b].result.value = TRUE
        /\ rag.available /\ rag.reconnect_attempts = 0
        /\ store # {}

\* C34: an available store has a client handle and a collection handle, and
\* the two handles are both present or both absent in every state
C34_HandlesTogether ==
    /\ rag.available => rag.client /\ rag.collection
    /\ rag.client <=> rag.collection

\* a reconnect try failed after the store had been connected: both handles
\* are gone
C34_Witness ==
    /\ ~rag.client /\ ~rag.collection
    /\ ~rag.available
    /\ rag.reconnect_attempts > 0
    /\ store # {}

\* C32: one ask request makes at most one reconnect try: it takes at most one
\* unit of the attempt budget and sleeps at most one backoff delay
C32_AsStated ==
    \A r \in Reqs : ask[r].tries <= 1

\* what holds of C32: at most one reconnect try for each of the two searches
\* of the request, the one of the route and the one inside get_context
C32_OneTryPerSearch ==
    \A r \in Reqs :
        /\ ask[r].tries <= 2
        /\ ask[r].pc \in {"search", "search_sleep", "context"} => ask[r].tries <= 1

\* the payload under the key of question parses and is no package
ForeignEntry(kv, question) ==
    LET key == HashQuestion(question)
    IN  /\ key \in DOMAIN kv
        /\ JsonParses(kv[key])
        /\ JsonLoads(kv[key]) \in ForeignPayloads

\* C35: when the cache returns a payload that parses and is no package (not
\* an object, or an object without answer, sources or tokens_used), the
\* request goes on to retrieval as after a miss: it does not fail and it does
\* not return a response with cached = true
C35_ForeignPayloadIsMiss ==
    [][\A r \in Reqs :
         (LookupStep(r) /\ ask'[r].lookup_ok /\ ForeignEntry(redis, ask'[r].question)) =>
            /\ ask'[r].found \in ForeignPayloads
            /\ ask'[r].pc = "search"
            /\ ask'[r].response = Nil
            /\ ask'[r].error = Nil
            /\ ask'[r].outcome = None]_vars

\* the cache gave the request a JSON array; the request has searched and is
\* about to generate its answer
C35_Witness ==
    \E r \in Reqs :
        /\ ask[r].pc = "generate"
        /\ ask[r].lookup_ok
        /\ ask[r].found = [array |-> <<"item1", "item2">>]
        /\ ask[r].sources # <<>>

\* C36: after construction and any register_provider and set_provider calls
\* the active provider is there, and it is the provider object the registry
\* holds under the name of the active provider
C36_AsStated ==
    /\ llm.current \in llm.registered
    /\ llm.active = llm.instance[llm.current]

\* what holds of C36: the active provider is there, and it is a provider
\* object that was registered under its name
C36_ActiveWasRegistered ==
    /\ llm.current \in llm.registered
    /\ llm.active >= 1
    /\ llm.active <= llm.instance[llm.current]

\* a search called by coroutine a has returned
SearchReturned(a) == adm[a].pc = "returned" /\ adm[a].result.op = "search"

\* C37: the score search gives is strictly decreasing in the distance of the
\* backend: of two matches of one search, the one at the smaller distance
\* (distance 0 included) has the strictly higher score
C37_AsStated ==
    \A a \in Adms :
        SearchReturned(a) =>
            LET res == adm[a].result
                d(i) == Distance(res.query, res.value[i].chunk)
            IN  \A i, j \in 1..Len(res.value) :
                    d(i) < d(j) => res.value[i].score > res.value[j].score

\* what holds of C37: the same of two matches at distances above 0
C37_AboveZero ==
    \A a \in Adms :
        SearchReturned(a) =>
            LET res == adm[a].result
                d(i) == Distance(res.query, res.value[i].chunk)
            IN  \A i, j \in 1..Len(res.value) :
                    (0 < d(i) /\ d(i) < d(j)) => res.value[i].score > res.value[j].score

\* C38: every chunk _chunk_text returns has at most chunk_size characters
C38_ChunkWithinSize ==
    ChunkReturned =>
        \A i \in 1..Len(chunker.result) : Len(chunker.result[i]) <= chunker.chunk_size

\* a call returned several chunks, one of them of exactly chunk_size characters
C38_Witness ==
    /\ ChunkReturned
    /\ Len(chunker.result) >= 2
    /\ \E i \in 1..Len(chunker.result) : Len(chunker.result[i]) = chunker.chunk_size

\* the characters of window i of the call
WindowText(i) ==
    PySlice(chunker.text, chunker.windows[i].start, chunker.windows[i].end)

\* window i was cut only where the claim says: its full-size right edge lay
\* before the end of the text, and the last '.' or newline of the full-size
\* window is at an index above chunk_size // 2; the cut is just after it
CutPastMiddle(i) ==
    LET w    == chunker.windows[i]
        full == PySlice(chunker.text, w.start, w.start + chunker.chunk_size)
        last == RFindAny(full, {".", "\n"})
    IN  w.cut => /\ w.start + chunker.chunk_size < Len(chunker.text)
                 /\ last > chunker.chunk_size \div 2
                 /\ w.end = w.start + last + 1

\* window i ends at a '.' or newline, or has chunk_size characters
BoundaryOrFull(i) ==
    LET t == WindowText(i)
    IN  \/ Len(t) = chunker.chunk_size
        \/ t # <<>> /\ t[Len(t)] \in {".", "\n"}

\* C39: a window is cut only when its right edge lies before the end of the
\* text and its last '.' or newline is at an index above chunk_size // 2;
\* every window but the last ends at a '.' or newline or is of full size
C39_AsStated ==
    ChunkReturned =>
        /\ \A i \in 1..Len(chunker.windows) : CutPastMiddle(i)
        /\ \A i \in 1..(Len(chunker.windows) - 1) : BoundaryOrFull(i)

\* what holds of C39: the condition of the cut, and the form of every window
\* whose full-size right edge lies before the end of the text
C39_BeforeEndOfText ==
    ChunkReturned =>
        /\ \A i \in 1..Len(chunker.windows) : CutPastMiddle(i)
        /\ \A i \in 1..Len(chunker.windows) :
             chunker.windows[i].start + chunker.chunk_size < Len(chunker.text)
                => BoundaryOrFull(i)

====
